---------------------------- MODULE Spec2Model ----------------------------
(***************************************************************************)
(* A model of the CUA annotation tool (src/app.py): the event-to-step      *)
(* normalizer, the action code synthesizer, the coordinate adjustment      *)
(* overlay, the annotation store, the export assembler and the review      *)
(* page's handlers.                                                         *)
(*                                                                         *)
(* Text is modelled as a sequence of one-character strings, so that        *)
(* containment tests, formatting and the regular expressions of the code   *)
(* are computed rather than assumed.  Characters outside ASCII are named   *)
(* by their code point ("U+00D7").  Times are integers in hundredths of a  *)
(* second (11.6 s is 1160); inputs are multiples of a tenth of a second,   *)
(* for which 0.8 * d is exact.  A JSON object is a function whose domain   *)
(* is the set of keys that are present; a Python dict or JS object whose   *)
(* iteration order matters is a record [keys, val].                        *)
(***************************************************************************)
EXTENDS Integers, Sequences, FiniteSets, TLC

VARIABLES
    annotations_file,   \* ANNOTATIONS_FILE: task_id -> {mark, pass_reason, scores}
    coord_file,         \* OUTPUT_DIR/coordinate_adjustments.json
    out_tree,           \* the other files under OUTPUT_DIR
    data_dir,           \* DATA_DIR: per task, its directory (or none)
    csv_file,           \* CSV_FILE: the task registry, task_id -> row
    last,               \* the request handled last and its response
    nOps,               \* number of requests handled so far
    setHist,            \* history: (task_id, step_index) -> first original, last (x, y) of its set calls
    handlers,           \* requests in flight (concurrent specification)
    nWrites,            \* history: number of overlay writes so far
    annotations,        \* review page: let annotations
    currentTaskId,      \* review page: let currentTaskId
    markSeq,            \* history: progress of a pass, fail, unclear sequence
    loaded,             \* the value load_task_data returned last
    coordAdjustments,   \* review page: let coordAdjustments
    taskData,           \* review page: let taskData, task_id -> the task as fetched
    currentStepIndex,   \* review page: let currentStepIndex
    progressBar         \* review page: the counts and the finish button as rendered last

vars == <<annotations_file, coord_file, out_tree, data_dir, csv_file, last, nOps, setHist,
          handlers, nWrites, annotations, currentTaskId, markSeq, loaded,
          coordAdjustments, taskData, currentStepIndex, progressBar>>

-----------------------------------------------------------------------------
(* Text *)

Digit(d) ==
    CASE d = 0 -> "0" [] d = 1 -> "1" [] d = 2 -> "2" [] d = 3 -> "3" [] d = 4 -> "4"
      [] d = 5 -> "5" [] d = 6 -> "6" [] d = 7 -> "7" [] d = 8 -> "8" [] d = 9 -> "9"

DigitChars == {"0", "1", "2", "3", "4", "5", "6", "7", "8", "9"}

RECURSIVE NatToStr(_)
NatToStr(n) == IF n < 10 THEN <<Digit(n)>> ELSE NatToStr(n \div 10) \o <<Digit(n % 10)>>

\* str(n) / f"{n}" / `${n}` of an integer
IntToStr(n) == IF n < 0 THEN <<"-">> \o NatToStr(-n) ELSE NatToStr(n)

\* `sub in s` (Python), s.includes(sub) (JS)
Contains(s, sub) ==
    \E i \in 1..(Len(s) - Len(sub) + 1) : SubSeq(s, i, i + Len(sub) - 1) = sub

LowerChar(c) ==
    CASE c = "A" -> "a" [] c = "B" -> "b" [] c = "C" -> "c" [] c = "D" -> "d"
      [] c = "E" -> "e" [] c = "F" -> "f" [] c = "G" -> "g" [] c = "H" -> "h"
      [] c = "I" -> "i" [] c = "J" -> "j" [] c = "K" -> "k" [] c = "L" -> "l"
      [] c = "M" -> "m" [] c = "N" -> "n" [] c = "O" -> "o" [] c = "P" -> "p"
      [] c = "Q" -> "q" [] c = "R" -> "r" [] c = "S" -> "s" [] c = "T" -> "t"
      [] c = "U" -> "u" [] c = "V" -> "v" [] c = "W" -> "w" [] c = "X" -> "x"
      [] c = "Y" -> "y" [] c = "Z" -> "z" [] OTHER -> c

\* s.lower()
Lower(s) == [i \in 1..Len(s) |-> LowerChar(s[i])]

\* the end (exclusive) of the longest run of digits of s that starts at i
RECURSIVE DigitsEnd(_, _)
DigitsEnd(s, i) == IF i <= Len(s) /\ s[i] \in DigitChars THEN DigitsEnd(s, i + 1) ELSE i

\* the end (exclusive) of the run of white space of s that starts at i
RECURSIVE SpaceEnd(_, _)
SpaceEnd(s, i) == IF i <= Len(s) /\ s[i] = " " THEN SpaceEnd(s, i + 1) ELSE i

\* s has the literal lit at position i
HasAt(s, i, lit) == i + Len(lit) - 1 <= Len(s) /\ SubSeq(s, i, i + Len(lit) - 1) = lit

\* The pattern  \((\d+),\s*(\d+)\)  matched at position i of s: the two groups
\* and the position after the match, or <<>> when there is no match at i.
\* (\d+ is greedy and is followed by a non-digit, so each group is a whole run.)
PairAt(s, i) ==
    IF ~HasAt(s, i, <<"(">>) THEN <<>>
    ELSE LET a1 == i + 1
             a2 == DigitsEnd(s, a1)
         IN  IF a2 = a1 \/ ~HasAt(s, a2, <<",">>) THEN <<>>
             ELSE LET b1 == SpaceEnd(s, a2 + 1)
                      b2 == DigitsEnd(s, b1)
                  IN  IF b2 = b1 \/ ~HasAt(s, b2, <<")">>) THEN <<>>
                      ELSE <<SubSeq(s, a1, a2 - 1), SubSeq(s, b1, b2 - 1), b2 + 1>>

S_pyautogui == <<"p", "y", "a", "u", "t", "o", "g", "u", "i", ".">>
S_click == <<"c", "l", "i", "c", "k">>
S_Click == <<"C", "l", "i", "c", "k">>
S_double == <<"d", "o", "u", "b", "l", "e">>
S_right == <<"r", "i", "g", "h", "t">>
S_triple == <<"t", "r", "i", "p", "l", "e">>
S_clicks3 == <<"c", "l", "i", "c", "k", "s", "=", "3">>
S_moveTo == <<"m", "o", "v", "e", "T", "o">>
S_dragTo == <<"d", "r", "a", "g", "T", "o">>
S_drag == <<"d", "r", "a", "g">>
S_DragFrom == <<"D", "r", "a", "g", " ", "f", "r", "o", "m", " ">>
S_to == <<" ", "t", "o", " ">>
S_sep == <<",", " ">>

\* f"({x}, {y})"
Args(x, y) == <<"(">> \o IntToStr(x) \o S_sep \o IntToStr(y) \o <<")">>

\* the same with the two numbers given as text
ArgsText(a, b) == <<"(">> \o a \o S_sep \o b \o <<")">>

DoubleClickCode(x, y) == S_pyautogui \o S_double \o S_Click \o Args(x, y)
RightClickCode(x, y) == S_pyautogui \o S_right \o S_Click \o Args(x, y)
TripleClickCode(x, y) ==
    S_pyautogui \o S_click \o <<"(">> \o IntToStr(x) \o S_sep \o IntToStr(y)
        \o S_sep \o S_clicks3 \o <<")">>
ClickCode(x, y) == S_pyautogui \o S_click \o Args(x, y)
MoveDragCode(a, b, c, d) ==
    S_pyautogui \o S_moveTo \o ArgsText(a, b) \o <<";", " ">>
        \o S_pyautogui \o S_dragTo \o ArgsText(c, d)
DragCode(x, y) == S_pyautogui \o S_drag \o Args(x, y)


-----------------------------------------------------------------------------
(* JSON objects and ordered dicts *)

\* d.get(k, default)
JGet(d, k, default) == IF k \in DOMAIN d THEN d[k] ELSE default

\* {} as an ordered dict
EmptyDict == [keys |-> <<>>, val |-> <<>>]

SeqRange(q) == {q[i] : i \in 1..Len(q)}

\* k in d
Has(d, k) == k \in SeqRange(d.keys)

\* tasks.get(task_id, {}) / annotations.get(task_id, {})
DictGet(d, k) == IF Has(d, k) THEN d.val[k] ELSE <<>>

\* d[k] = v: a new key goes last, an existing key keeps its place
Put(d, k, v) ==
    [keys |-> IF Has(d, k) THEN d.keys ELSE Append(d.keys, k),
     val  |-> [j \in SeqRange(d.keys) \cup {k} |-> IF j = k THEN v ELSE d.val[j]]]

-----------------------------------------------------------------------------
(* Action Code Synthesizer: build_pyautogui_code *)

A_click == S_click
A_drag == S_drag
A_scroll == <<"s", "c", "r", "o", "l", "l">>
A_type == <<"t", "y", "p", "e">>
A_press == <<"p", "r", "e", "s", "s">>

\* The markers, character by character as the source file holds them.
M_down == <<"U+201A", "U+00A8", "U+00E1", "U+00D4", "U+220F", "U+00E8", "U+221A", "U+00F3">>
M_up == <<"U+201A", "U+00A8", "U+00DC", "U+00D4", "U+220F", "U+00E8", "U+221A", "U+00F3">>
M_keyboard == <<"U+201A", "U+00E5", "U+00AE", "U+00D4", "U+220F", "U+00E8">>
M_type == M_keyboard \o <<" ", "T", "y", "p", "e", ":", " ">>
M_press == M_keyboard \o <<" ", "P", "r", "e", "s", "s", ":", " ">>
S_dots == <<".", ".", ".">>

DigitVal(c) ==
    CASE c = "0" -> 0 [] c = "1" -> 1 [] c = "2" -> 2 [] c = "3" -> 3 [] c = "4" -> 4
      [] c = "5" -> 5 [] c = "6" -> 6 [] c = "7" -> 7 [] c = "8" -> 8 [] c = "9" -> 9

\* int(s) of a run of digits
RECURSIVE StrToNat(_)
StrToNat(s) ==
    IF Len(s) = 0 THEN 0 ELSE 10 * StrToNat(SubSeq(s, 1, Len(s) - 1)) + DigitVal(s[Len(s)])

\* re.search(r'Drag from \((\d+),\s*(\d+)\) to \((\d+),\s*(\d+)\)', s): the four
\* groups of the match at position i, or <<>>
DragMatchAt(s, i) ==
    IF ~HasAt(s, i, S_DragFrom) THEN <<>>
    ELSE LET p == PairAt(s, i + Len(S_DragFrom))
         IN  IF p = <<>> \/ ~HasAt(s, p[3], S_to) THEN <<>>
             ELSE LET q == PairAt(s, p[3] + Len(S_to))
                  IN  IF q = <<>> THEN <<>> ELSE <<p[1], p[2], q[1], q[2]>>

\* the leftmost match, or <<>>
DragMatch(s) ==
    LET hits == {i \in 1..Len(s) : DragMatchAt(s, i) # <<>>}
    IN  IF hits = {} THEN <<>>
        ELSE DragMatchAt(s, CHOOSE i \in hits : \A j \in hits : i <= j)

\* re.search(marker + r'(\d+)', s): the group of the leftmost match, or <<>>
CountMatch(s, marker) ==
    LET hits == {i \in 1..Len(s) :
                    HasAt(s, i, marker) /\ DigitsEnd(s, i + Len(marker)) > i + Len(marker)}
    IN  IF hits = {} THEN <<>>
        ELSE LET i == CHOOSE k \in hits : \A j \in hits : k <= j
             IN  SubSeq(s, i + Len(marker), DigitsEnd(s, i + Len(marker)) - 1)

\* the end (exclusive) of the run of characters other than a line break from i
RECURSIVE LineEnd(_, _)
LineEnd(s, i) == IF i <= Len(s) /\ s[i] # "LF" THEN LineEnd(s, i + 1) ELSE i

\* re.search(marker + r'(.+)', s): the group of the leftmost match, or <<>>
RestMatch(s, marker) ==
    LET hits == {i \in 1..Len(s) :
                    HasAt(s, i, marker) /\ LineEnd(s, i + Len(marker)) > i + Len(marker)}
    IN  IF hits = {} THEN <<>>
        ELSE LET i == CHOOSE k \in hits : \A j \in hits : k <= j
             IN  SubSeq(s, i + Len(marker), LineEnd(s, i + Len(marker)) - 1)

TypeMaxLen == 30

\* Mutant: triple is looked for before right.
ClickVariantCode_TripleFirst(desc_lower, x, y) ==
    IF Contains(desc_lower, S_double) THEN DoubleClickCode(x, y)
    ELSE IF Contains(desc_lower, S_triple) THEN TripleClickCode(x, y)
    ELSE IF Contains(desc_lower, S_right) THEN RightClickCode(x, y)
    ELSE ClickCode(x, y)

\* lines 183-189: the code of a click
ClickVariantCode(desc_lower, x, y) ==
    IF Contains(desc_lower, S_double) THEN DoubleClickCode(x, y)
    ELSE IF Contains(desc_lower, S_right) THEN RightClickCode(x, y)
    ELSE IF Contains(desc_lower, S_triple) THEN TripleClickCode(x, y)
    ELSE ClickCode(x, y)

\* Mutant: the down count is added and the up count subtracted.
ScrollTotal_Swapped(down, up) ==
    (IF down # <<>> THEN StrToNat(down) ELSE 0) - (IF up # <<>> THEN StrToNat(up) ELSE 0)

\* lines 198-200: total, from the groups of the two matches (<<>>: no match)
ScrollTotal(down, up) ==
    (IF up # <<>> THEN StrToNat(up) ELSE 0) - (IF down # <<>> THEN StrToNat(down) ELSE 0)

\* Mutant: the text is cut when it has 30 characters or more.
TypeText_CutAt30(match) ==
    IF Len(match) >= TypeMaxLen THEN SubSeq(match, 1, TypeMaxLen) \o S_dots ELSE match

\* line 205: match.group(1)[:30] + '...' if len(match.group(1)) > 30 else match.group(1)
TypeText(match) ==
    IF Len(match) > TypeMaxLen THEN SubSeq(match, 1, TypeMaxLen) \o S_dots ELSE match

build_pyautogui_code(action, event, description) ==
    LET coord == JGet(event, "coordinate", <<>>)
        x == JGet(coord, "x", 0)
        y == JGet(coord, "y", 0)
        desc_lower == Lower(description)
    IN  IF action = A_click THEN ClickVariantCode(desc_lower, x, y)
        ELSE IF action = A_drag THEN
            LET match == DragMatch(description)
            IN  IF match # <<>> THEN MoveDragCode(match[1], match[2], match[3], match[4])
                ELSE DragCode(x, y)
        ELSE IF action = A_scroll THEN
            LET down == CountMatch(description, M_down)
                up == CountMatch(description, M_up)
                total == ScrollTotal(down, up)
            IN  S_pyautogui \o A_scroll \o <<"(">> \o IntToStr(total) \o <<")">>
        ELSE IF action = A_type THEN
            LET match == RestMatch(description, M_type)
                text == TypeText(match)
            IN  IF match # <<>>
                THEN S_pyautogui \o <<"w", "r", "i", "t", "e", "(", "'">> \o text \o <<"'", ")">>
                ELSE S_pyautogui \o <<"w", "r", "i", "t", "e", "(", "'">> \o S_dots \o <<"'", ")">>
        ELSE IF action = A_press THEN
            LET match == RestMatch(description, M_press)
            IN  IF match # <<>>
                THEN S_pyautogui \o <<"h", "o", "t", "k", "e", "y", "(">> \o match \o <<")">>
                ELSE S_pyautogui \o A_press \o <<"(", "'">> \o S_dots \o <<"'", ")">>
        ELSE <<"#", " ">> \o action

-----------------------------------------------------------------------------
(* Event-to-Step Normalizer: load_task_data *)

Max(a, b) == IF a >= b THEN a ELSE b
Min(a, b) == IF a <= b THEN a ELSE b

\* Python truthiness of d.get(k) for a number: the key is present and not 0
Truthy(d, k) == k \in DOMAIN d /\ d[k] # 0

\* Mutant: a pre_move that has only a start_time sets the capture time.
CaptureTime_PreMoveStart(ce) ==
    LET start_time == JGet(ce, "start_time", 0)
        pre_move == JGet(ce, "pre_move", <<>>)
    IN  IF DOMAIN pre_move # {} /\ Truthy(pre_move, "start_time")
                                /\ Truthy(pre_move, "end_time") THEN
            pre_move["start_time"]
                + (((pre_move["end_time"] - pre_move["start_time"]) * 8) \div 10)
        ELSE IF DOMAIN pre_move # {} /\ Truthy(pre_move, "end_time") THEN
            Max(0, pre_move["end_time"] - 30)
        ELSE IF DOMAIN pre_move # {} /\ Truthy(pre_move, "start_time") THEN
            Max(0, pre_move["start_time"] - 10)
        ELSE Max(0, start_time - 10)

\* lines 131-144: the capture time of one complete-log event
CaptureTime(ce) ==
    LET start_time == JGet(ce, "start_time", 0)
        pre_move == JGet(ce, "pre_move", <<>>)
    IN  IF DOMAIN pre_move # {} /\ Truthy(pre_move, "start_time")
                                /\ Truthy(pre_move, "end_time") THEN
            LET pm_start == pre_move["start_time"]
                pm_end == pre_move["end_time"]
                pm_duration == pm_end - pm_start
            IN  pm_start + ((pm_duration * 8) \div 10)
        ELSE IF DOMAIN pre_move # {} /\ Truthy(pre_move, "end_time") THEN
            Max(0, pre_move["end_time"] - 30)
        ELSE Max(0, start_time - 10)

\* Mutant: a coordinate counts only when both axes are non-zero.
HasCoordinate_BothAxes(action, x, y) == action \in {A_click, A_drag} /\ (x # 0 /\ y # 0)

\* line 154: action in ('click', 'drag') and (x != 0 or y != 0)
HasCoordinate(action, x, y) == action \in {A_click, A_drag} /\ (x # 0 \/ y # 0)

\* lines 124-165: the step built from complete event ce at index i
BuildStep(i, ce, vis_events, video_start_ts) ==
    LET ve == IF i < Len(vis_events) THEN vis_events[i + 1] ELSE <<>>
        coord == JGet(ce, "coordinate", <<>>)
        x == JGet(coord, "x", 0)
        y == JGet(coord, "y", 0)
        video_time == CaptureTime(ce) - video_start_ts
        action == JGet(ce, "action", <<>>)
        description == JGet(ve, "description", JGet(ce, "description", <<>>))
        code == build_pyautogui_code(action, ce, description)
        has_coordinate == HasCoordinate(action, x, y)
    IN  [index |-> i, action |-> action, description |-> description,
         justification |-> JGet(ce, "justification", <<>>), code |-> code,
         coordinate |-> [x |-> x, y |-> y], has_coordinate |-> has_coordinate,
         video_time |-> video_time]

NotFound == [found |-> FALSE]

\* Mutant: the two logs are walked in step, so that the shorter one ends the walk.
load_task_data_Zip(d, task_id) ==
    IF ~d.exists THEN NotFound
    ELSE IF ~d.complete.exists THEN NotFound
    ELSE LET video_start_ts == JGet(d.metadata, "video_start_timestamp", 0)
             vis_events == IF d.vis.exists THEN d.vis.events ELSE <<>>
             complete_events == d.complete.events
         IN  [found |-> TRUE, task_id |-> task_id, video_file |-> d.video.exists,
              video_start_ts |-> video_start_ts,
              steps |-> [k \in 1..Min(Len(complete_events), Len(vis_events)) |->
                            BuildStep(k - 1, complete_events[k], vis_events, video_start_ts)]]

\* load_task_data(task_id) on the task directory d (d.exists: the directory is there)
load_task_data(d, task_id) ==
    IF ~d.exists THEN NotFound
    ELSE IF ~d.complete.exists THEN NotFound
    ELSE LET video_start_ts == JGet(d.metadata, "video_start_timestamp", 0)
             vis_events == IF d.vis.exists THEN d.vis.events ELSE <<>>
             complete_events == d.complete.events
         IN  [found |-> TRUE, task_id |-> task_id, video_file |-> d.video.exists,
              video_start_ts |-> video_start_ts,
              steps |-> [k \in 1..Len(complete_events) |->
                            BuildStep(k - 1, complete_events[k], vis_events, video_start_ts)]]

-----------------------------------------------------------------------------
(* Coordinate Adjustment Store: api_update_coordinate *)

\* f"{task_id}_{step_index}"
AdjKey(task_id, step_index) == task_id \o <<"_">> \o IntToStr(step_index)

\* Mutant: the supplied original replaces the stored one on every call.
UpdatedOverlay_OverwriteOriginal(coord_adjustments, data) ==
    Put(coord_adjustments, AdjKey(data.task_id, data.step_index),
        [task_id |-> data.task_id, step_index |-> data.step_index,
         x |-> data.x, y |-> data.y,
         original |-> [x |-> data.original_x, y |-> data.original_y]])

\* Mutant: an entry that exists is left as it is.
UpdatedOverlay_KeepCurrent(coord_adjustments, data) ==
    IF Has(coord_adjustments, AdjKey(data.task_id, data.step_index))
    THEN coord_adjustments
    ELSE Put(coord_adjustments, AdjKey(data.task_id, data.step_index),
             [task_id |-> data.task_id, step_index |-> data.step_index,
              x |-> data.x, y |-> data.y,
              original |-> [x |-> data.original_x, y |-> data.original_y]])

\* Mutant: the overlay written holds the entry of the request alone.
UpdatedOverlay_FreshDict(coord_adjustments, data) ==
    Put(EmptyDict, AdjKey(data.task_id, data.step_index),
        [task_id |-> data.task_id, step_index |-> data.step_index,
         x |-> data.x, y |-> data.y,
         original |-> [x |-> data.original_x, y |-> data.original_y]])

\* lines 1524-1538: the overlay written, from the overlay read and the request
UpdatedOverlay(coord_adjustments, data) ==
    LET key == AdjKey(data.task_id, data.step_index)
        original == IF Has(coord_adjustments, key)
                        /\ "original" \in DOMAIN coord_adjustments.val[key]
                    THEN coord_adjustments.val[key].original
                    ELSE [x |-> data.original_x, y |-> data.original_y]
    IN  Put(coord_adjustments, key,
            [task_id |-> data.task_id, step_index |-> data.step_index,
             x |-> data.x, y |-> data.y, original |-> original])

-----------------------------------------------------------------------------
(* Annotation State Store: api_annotate *)

None == "None"

\* Mutant: a call without a mark removes the task's record.
UpdatedAnnotations_DeleteUnset(anns, data) ==
    IF JGet(data, "mark", None) = None
    THEN [keys |-> SelectSeq(anns.keys, LAMBDA k : k # data["task_id"]),
          val |-> [k \in DOMAIN anns.val \ {data["task_id"]} |-> anns.val[k]]]
    ELSE Put(anns, data["task_id"],
             [mark |-> data["mark"],
              pass_reason |-> JGet(data, "pass_reason", <<>>),
              scores |-> JGet(data, "scores", <<>>)])

\* Mutant: the request is merged into the task's previous record.
UpdatedAnnotations_Merge(anns, data) ==
    Put(anns, data["task_id"],
        [mark |-> JGet(data, "mark", JGet(DictGet(anns, data["task_id"]), "mark", None)),
         pass_reason |-> JGet(data, "pass_reason",
                              JGet(DictGet(anns, data["task_id"]), "pass_reason", <<>>)),
         scores |-> JGet(data, "scores", <<>>)
                        @@ JGet(DictGet(anns, data["task_id"]), "scores", <<>>)])

\* lines 1475-1486: the annotations written, from the annotations read and the request
UpdatedAnnotations(anns, data) ==
    Put(anns, data["task_id"],
        [mark |-> JGet(data, "mark", None),
         pass_reason |-> JGet(data, "pass_reason", <<>>),
         scores |-> JGet(data, "scores", <<>>)])

-----------------------------------------------------------------------------
(* Coordinate substitution, as api_task and api_export each spell it *)

\* re.search(r'dragTo\((\d+),\s*(\d+)\)', code): the two groups of the leftmost
\* match, or <<>>
DragToMatch(code) ==
    LET hits == {i \in 1..Len(code) :
                    HasAt(code, i, S_dragTo) /\ PairAt(code, i + Len(S_dragTo)) # <<>>}
    IN  IF hits = {} THEN <<>>
        ELSE LET p == PairAt(code, Len(S_dragTo) + CHOOSE i \in hits : \A j \in hits : i <= j)
             IN  <<p[1], p[2]>>

\* Mutant: the adjustment replaces the drag target and the start is kept.
TaskViewCode_DragTarget(code, x, y) ==
    IF Contains(code, S_double \o S_Click) THEN DoubleClickCode(x, y)
    ELSE IF Contains(code, S_right \o S_Click) THEN RightClickCode(x, y)
    ELSE IF Contains(code, S_clicks3) THEN TripleClickCode(x, y)
    ELSE IF Contains(Lower(code), S_click) /\ Contains(code, S_pyautogui \o S_click)
        THEN ClickCode(x, y)
    ELSE IF Contains(code, S_moveTo) /\ Contains(code, S_dragTo) THEN
        LET match == PairAt(code, Len(S_pyautogui \o S_moveTo) + 1)
        IN  IF match # <<>>
            THEN MoveDragCode(match[1], match[2], IntToStr(x), IntToStr(y))
            ELSE code
    ELSE code

\* api_task, lines 1456-1469
TaskViewCode(code, x, y) ==
    IF Contains(code, S_double \o S_Click) THEN DoubleClickCode(x, y)
    ELSE IF Contains(code, S_right \o S_Click) THEN RightClickCode(x, y)
    ELSE IF Contains(code, S_clicks3) THEN TripleClickCode(x, y)
    ELSE IF Contains(Lower(code), S_click) /\ Contains(code, S_pyautogui \o S_click)
        THEN ClickCode(x, y)
    ELSE IF Contains(code, S_moveTo) /\ Contains(code, S_dragTo) THEN
        LET match == DragToMatch(code)
        IN  IF match # <<>>
            THEN MoveDragCode(IntToStr(x), IntToStr(y), match[1], match[2])
            ELSE code
    ELSE code

\* Mutant: every click form is rewritten as the plain click.
ExportCode_PlainClick(code, x, y) ==
    IF Contains(Lower(code), S_click) THEN ClickCode(x, y) ELSE code

\* api_export, lines 1641-1654
ExportCode(code, x, y) ==
    IF Contains(code, S_double \o S_Click) THEN DoubleClickCode(x, y)
    ELSE IF Contains(code, S_right \o S_Click) THEN RightClickCode(x, y)
    ELSE IF Contains(code, S_clicks3) THEN TripleClickCode(x, y)
    ELSE IF Contains(Lower(code), S_click) /\ Contains(code, S_pyautogui \o S_click)
        THEN ClickCode(x, y)
    ELSE IF Contains(code, S_moveTo) /\ Contains(code, S_dragTo) THEN
        LET match == DragToMatch(code)
        IN  IF match # <<>>
            THEN MoveDragCode(IntToStr(x), IntToStr(y), match[1], match[2])
            ELSE code
    ELSE code

\* Mutant: the pair kept as the drag target is the first pair of the code.
PageCode_FirstPair(action, code, x, y) ==
    IF action = A_click THEN
        IF Contains(code, S_double \o S_Click) THEN DoubleClickCode(x, y)
        ELSE IF Contains(code, S_right \o S_Click) THEN RightClickCode(x, y)
        ELSE IF Contains(code, S_clicks3) THEN TripleClickCode(x, y)
        ELSE ClickCode(x, y)
    ELSE IF action = A_drag THEN
        LET hits == {i \in 1..Len(code) : PairAt(code, i) # <<>>}
        IN  IF hits = {} THEN code
            ELSE LET p == PairAt(code, CHOOSE i \in hits : \A j \in hits : i <= j)
                 IN  MoveDragCode(IntToStr(x), IntToStr(y), p[1], p[2])
    ELSE code

\* saveCoordinate, lines 1233-1251: the code the page gives the step it holds
PageCode(action, code, x, y) ==
    IF action = A_click THEN
        IF Contains(code, S_double \o S_Click) THEN DoubleClickCode(x, y)
        ELSE IF Contains(code, S_right \o S_Click) THEN RightClickCode(x, y)
        ELSE IF Contains(code, S_clicks3) THEN TripleClickCode(x, y)
        ELSE ClickCode(x, y)
    ELSE IF action = A_drag THEN
        LET match == DragToMatch(code)
        IN  IF match # <<>>
            THEN MoveDragCode(IntToStr(x), IntToStr(y), match[1], match[2])
            ELSE code
    ELSE code

\* api_task, lines 1448-1469: one step with its adjustment applied
AdjustedStep(step, adj) ==
    [step EXCEPT !.coordinate = [x |-> adj.x, y |-> adj.y],
                 !.code = TaskViewCode(step.code, adj.x, adj.y)]

\* api_task, lines 1446-1469: the loop over the steps of the loaded task
TaskSteps(steps, coord_adjustments, task_id) ==
    [k \in 1..Len(steps) |->
        IF Has(coord_adjustments, AdjKey(task_id, steps[k].index))
        THEN AdjustedStep(steps[k],
                          coord_adjustments.val[AdjKey(task_id, steps[k].index)])
        ELSE steps[k]]

\* api_task, lines 1441-1471: the response for what load_task_data returned
TaskResponse(data, coord_adjustments, task_id) ==
    IF ~data.found THEN NotFound
    ELSE [data EXCEPT !.steps = TaskSteps(data.steps, coord_adjustments, task_id)]

\* api_task, lines 1440-1471: the response body (found = FALSE: the 404)
api_task(d, coord_adjustments, task_id) ==
    TaskResponse(load_task_data(d, task_id), coord_adjustments, task_id)

-----------------------------------------------------------------------------
(* Export Assembler: api_export *)

S_task_ == <<"t", "a", "s", "k", "_">>
S_step_ == <<"s", "t", "e", "p", "_">>
S_png == <<".", "p", "n", "g">>
S_json == <<".", "j", "s", "o", "n">>
P_all_tasks == <<"a", "l", "l", "_", "t", "a", "s", "k", "s">> \o S_json
P_coord == <<"c", "o", "o", "r", "d", "i", "n", "a", "t", "e", "_",
             "a", "d", "j", "u", "s", "t", "m", "e", "n", "t", "s">> \o S_json
P_annotations == <<"a", "n", "n", "o", "t", "a", "t", "i", "o", "n", "s">> \o S_json

\* f"step_{step['index']}.png"
ScreenshotName(index) == S_step_ \o IntToStr(index) \o S_png
\* f"task_{task_id}/{screenshot_name}", also the file's path relative to OUTPUT_DIR
ScreenshotPath(task_id, index) == S_task_ \o task_id \o <<"/">> \o ScreenshotName(index)
\* task_output_dir / f'task_{task_id}.json', relative to OUTPUT_DIR
TaskJsonPath(task_id) == S_task_ \o task_id \o <<"/">> \o S_task_ \o task_id \o S_json

\* task_id.isdigit()
IsDigit(t) == Len(t) > 0 /\ \A i \in 1..Len(t) : t[i] \in DigitChars

\* int(task_id) if task_id.isdigit() else task_id, as a tagged JSON value
ExportTaskId(t) == IF IsDigit(t) THEN [int |-> StrToNat(t)] ELSE [str |-> t]

\* int(a / b) for b > 0: Python's int() cuts towards zero
TruncDiv(a, b) == IF a >= 0 THEN a \div b ELSE -((-a) \div b)

\* lines 1621-1627 (and 1562-1565): the frame asked of the video; video_time is
\* in hundredths of a second
FrameNum(video, video_time) ==
    LET fps == IF video.fps # 0 THEN video.fps ELSE 30
        frame_num == TruncDiv(video_time * fps, 100)
    IN  Max(0, Min(frame_num, video.total_frames - 1))

\* cap.read() after cap.set(CAP_PROP_POS_FRAMES, frame_num)
FrameRead(video, frame_num) == frame_num \in video.readable

\* data_dir / str(task_id)
NoDir == [exists |-> FALSE]
DirOf(dirs, task_id) == IF task_id \in DOMAIN dirs THEN dirs[task_id] ELSE NoDir

\* Mutant: every annotated task is selected, whatever its mark.
PassedTasks_AnyMark(anns) == anns.keys

\* line 1594
PassedTasks(anns) == SelectSeq(anns.keys, LAMBDA tid : JGet(anns.val[tid], "mark", None) = "pass")

\* lines 1636-1654: the code of one exported step
TrajCode(code, has_adj, adj) ==
    IF has_adj THEN ExportCode(code, adj.x, adj.y) ELSE code

\* lines 1656-1661: one entry of the trajectory
TrajStep(task_id, step, code) ==
    [index |-> step.index, code |-> code,
     screenshot |-> ScreenshotPath(task_id, step.index),
     justification |-> step.justification]

\* lines 1624-1661: the trajectory of one task
Traj(task_id, steps, coord_adjustments) ==
    [k \in 1..Len(steps) |->
        TrajStep(task_id, steps[k],
                 TrajCode(steps[k].code,
                          Has(coord_adjustments, AdjKey(task_id, steps[k].index)),
                          DictGet(coord_adjustments, AdjKey(task_id, steps[k].index))))]

\* lines 1626-1634: the screenshots written for one task (paths under OUTPUT_DIR)
Screenshots(task_id, steps, video) ==
    {ScreenshotPath(task_id, steps[k].index) :
        k \in {j \in 1..Len(steps) : FrameRead(video, FrameNum(video, steps[j].video_time))}}

\* Mutant: the scores are exported as they are stored.
CuaData_StoredScores(task_id, task_info, ann, traj) ==
    [task_id |-> ExportTaskId(task_id),
     instruction |-> JGet(task_info, "instruction", <<>>),
     pass_reason |-> JGet(ann, "pass_reason", <<>>),
     scores |-> JGet(ann, "scores", <<>>),
     traj |-> traj]

\* lines 1666-1677
CuaData(task_id, task_info, ann, traj) ==
    LET scores == JGet(ann, "scores", <<>>)
    IN  [task_id |-> ExportTaskId(task_id),
         instruction |-> JGet(task_info, "instruction", <<>>),
         pass_reason |-> JGet(ann, "pass_reason", <<>>),
         scores |-> [correctness |-> JGet(scores, "correctness", 0),
                     difficulty |-> JGet(scores, "difficulty", 0),
                     knowledge_richness |-> JGet(scores, "knowledge_richness", 0),
                     task_value |-> JGet(scores, "task_value", 0)],
         traj |-> traj]

\* lines 1663-1682: the files of one task written, and its entry in all_data
TaskWritten(acc, path, cua_data, shots) ==
    [all_data |-> Append(acc.all_data, cua_data),
     task_json |-> [q \in DOMAIN acc.task_json \cup {path} |->
                      IF q = path THEN cua_data ELSE acc.task_json[q]],
     screenshots |-> acc.screenshots \cup shots]

\* Mutant: a step whose frame could not be read is left out of the trajectory.
ExportTask_SkipUnread(task_id, d, task_data, acc, ann, task_info, coord_adjustments) ==
    IF ~task_data.found THEN acc
    ELSE IF ~d.video.exists THEN acc
    ELSE TaskWritten(acc, TaskJsonPath(task_id),
                     CuaData(task_id, task_info, ann,
                             Traj(task_id,
                                  SelectSeq(task_data.steps,
                                            LAMBDA step : FrameRead(d.video,
                                                FrameNum(d.video, step.video_time))),
                                  coord_adjustments)),
                     Screenshots(task_id, task_data.steps, d.video))

\* lines 1599-1682: the body of the loop for one passed task, task_data being
\* what load_task_data returned for it
ExportTask(task_id, d, task_data, acc, ann, task_info, coord_adjustments) ==
    IF ~task_data.found THEN acc
    ELSE IF ~d.video.exists THEN acc
    ELSE TaskWritten(acc, TaskJsonPath(task_id),
                     CuaData(task_id, task_info, ann,
                             Traj(task_id, task_data.steps, coord_adjustments)),
                     Screenshots(task_id, task_data.steps, d.video))

\* lines 1598-1682: the loop over passed_tasks from position k on; acc holds
\* all_data and the files under OUTPUT_DIR (path -> content for the per-task
\* dataset files, paths for the screenshots)
RECURSIVE ExportLoop(_, _, _, _, _, _, _)
ExportLoop(passed_tasks, k, acc, anns, tasks, dirs, coord_adjustments) ==
    IF k > Len(passed_tasks) THEN acc
    ELSE ExportLoop(passed_tasks, k + 1,
                    ExportTask(passed_tasks[k], DirOf(dirs, passed_tasks[k]),
                               load_task_data(DirOf(dirs, passed_tasks[k]), passed_tasks[k]),
                               acc, DictGet(anns, passed_tasks[k]),
                               DictGet(tasks, passed_tasks[k]), coord_adjustments),
                    anns, tasks, dirs, coord_adjustments)

\* lines 1690-1697: the names in export.zip, from what os.walk(OUTPUT_DIR) finds
ZipNames(tree, anns, coord_adjustments) ==
    {P_all_tasks} \cup DOMAIN tree.task_json \cup tree.screenshots
        \cup (IF coord_adjustments.keys # <<>> THEN {P_coord} ELSE {})
        \cup (IF anns.keys # <<>> THEN {P_annotations} ELSE {})

EmptyTree ==
    [all_tasks_exists |-> FALSE, all_tasks |-> <<>>, task_json |-> <<>>,
     screenshots |-> {}, zip_exists |-> FALSE, zip |-> {}]

\* lines 1684-1686: OUTPUT_DIR once the loop has run and all_tasks.json is written
DatasetWritten(tree, acc) ==
    [all_tasks_exists |-> TRUE, all_tasks |-> acc.all_data,
     task_json |-> acc.task_json, screenshots |-> acc.screenshots,
     zip_exists |-> tree.zip_exists, zip |-> tree.zip]

\* lines 1688-1697: export.zip written from what OUTPUT_DIR holds
Zipped(written, anns, coord_adjustments) ==
    [written EXCEPT !.zip_exists = TRUE,
                    !.zip = ZipNames(written, anns, coord_adjustments)]

\* api_export: the output tree it leaves
ExportedTree(tree, anns, tasks, dirs, coord_adjustments) ==
    Zipped(DatasetWritten(tree,
                ExportLoop(PassedTasks(anns), 1,
                           [all_data |-> <<>>, task_json |-> tree.task_json,
                            screenshots |-> tree.screenshots],
                           anns, tasks, dirs, coord_adjustments)),
           anns, coord_adjustments)

\* lines 1699-1706: the response
ExportResponse(anns) == [success |-> TRUE, count |-> Len(PassedTasks(anns))]

-----------------------------------------------------------------------------
(* The inputs: task ids, recorded events, task directories, requests *)

T1 == <<"1">>
T2 == <<"2">>
TaskIds == {T1, T2}

D_double == <<"D", "o", "u", "b", "l", "e", " ", "c", "l", "i", "c", "k">>
D_right == <<"R", "i", "g", "h", "t", " ", "c", "l", "i", "c", "k">>
D_triple == <<"T", "r", "i", "p", "l", "e", " ", "c", "l", "i", "c", "k">>
D_plain == <<"C", "l", "i", "c", "k", " ", "O", "K">>
D_drag == S_DragFrom \o <<"(", "1", ",", "2", ")">> \o S_to \o <<"(", "3", ",", " ", "4", ")">>
D_move == <<"M", "o", "v", "e", " ", "i", "t">>
J_why == <<"w", "h", "y">>

Ev(action, description, x, y) ==
    [action |-> action, description |-> description, justification |-> J_why,
     coordinate |-> [x |-> x, y |-> y], start_time |-> 900, end_time |-> 950]

GoodVideo == [exists |-> TRUE, fps |-> 10, total_frames |-> 200, readable |-> 0..199]
NoVideo == [exists |-> FALSE, fps |-> 0, total_frames |-> 0, readable |-> {}]
\* a video whose frames cannot be decoded
BadVideo == [exists |-> TRUE, fps |-> 0, total_frames |-> 0, readable |-> {}]

Dir(events, vis, video) ==
    [exists |-> TRUE, metadata |-> [video_start_timestamp |-> 100],
     video |-> video, vis |-> vis, complete |-> [exists |-> TRUE, events |-> events]]

NoLog == [exists |-> FALSE, events |-> <<>>]
NoCompleteDir ==
    [exists |-> TRUE, metadata |-> <<>>, video |-> GoodVideo, vis |-> NoLog, complete |-> NoLog]

\* The data directories the stores and the export are exercised on.
DataDirA ==
    (T1 :> Dir(<<Ev(A_click, D_double, 100, 200), Ev(A_drag, D_drag, 1, 2)>>, NoLog, GoodVideo))
        @@ (T2 :> Dir(<<Ev(A_click, D_plain, 100, 200)>>, NoLog, GoodVideo))
DataDirB ==
    (T1 :> Dir(<<Ev(A_click, D_right, 100, 200), Ev(A_click, D_triple, 100, 200)>>,
               NoLog, BadVideo))
        @@ (T2 :> Dir(<<Ev(A_click, D_plain, 100, 200)>>, NoLog, NoVideo))
DataDirC ==
    (T1 :> Dir(<<Ev(A_click, D_plain, 100, 200), Ev(A_drag, D_move, 5, 6)>>, NoLog, GoodVideo))
        @@ (T2 :> NoCompleteDir)
DataDirs == {DataDirA, DataDirB, DataDirC}

I_text == <<"d", "o", " ", "i", "t">>
Registry ==
    [keys |-> <<T1, T2>>,
     val |-> (T1 :> [task_id |-> T1, instruction |-> I_text])
                @@ (T2 :> [task_id |-> T2, instruction |-> I_text])]

Marks == {"pass", "fail", None}
R_ok == <<"o", "k">>
Dims == {"correctness", "difficulty", "knowledge_richness", "task_value"}

\* the bodies POSTed to /api/annotate: with every field, with the task id only,
\* and with a mark and another score dimension but no reason
AnnotateRequests ==
    {[task_id |-> t, mark |-> m, pass_reason |-> R_ok, scores |-> [correctness |-> 5]] :
        t \in TaskIds, m \in Marks}
    \cup {[task_id |-> t] : t \in TaskIds}
    \cup {[task_id |-> T1, mark |-> "pass", scores |-> [difficulty |-> 4]]}

\* the steps a coordinate is set for: both steps of task 1, the first of task 2
StepKeys == {<<T1, 0>>, <<T1, 1>>, <<T2, 0>>}
\* (x, y, original_x, original_y) of a set call
CoordValues == {<<150, 250, 100, 200>>, <<7, 8, 1, 1>>, <<7, 8, 100, 200>>}

\* the bodies POSTed to /api/update_coordinate
CoordRequests ==
    {[task_id |-> k[1], step_index |-> k[2], x |-> v[1], y |-> v[2],
      original_x |-> v[3], original_y |-> v[4]] : k \in StepKeys, v \in CoordValues}

MaxOps == 4

-----------------------------------------------------------------------------
(* The server, one request at a time *)

NoRequest == [op |-> "none"]
NoMarkSeq == [pos |-> 0]
\* lines 776-782: the page as served, counts 0 and the finish button disabled
NoProgress == [passed |-> 0, failed |-> 0, pending |-> 0, finish_disabled |-> TRUE]

ServerInit ==
    /\ annotations_file = EmptyDict
    /\ coord_file = EmptyDict
    /\ out_tree = EmptyTree
    /\ csv_file = Registry
    /\ last = NoRequest
    /\ nOps = 0
    /\ setHist = <<>>

IdleRest ==
    /\ handlers = <<>>
    /\ nWrites = 0
    /\ annotations = EmptyDict
    /\ currentTaskId = None
    /\ markSeq = NoMarkSeq
    /\ loaded = NotFound
    /\ coordAdjustments = EmptyDict
    /\ taskData = <<>>
    /\ currentStepIndex = 0
    /\ progressBar = NoProgress

Init ==
    /\ ServerInit
    /\ data_dir \in DataDirs
    /\ IdleRest

\* history of the set calls: the first supplied original, the last (x, y)
SetHistAfter(h, data) ==
    LET k == <<data.task_id, data.step_index>>
        entry == [first_original |-> IF k \in DOMAIN h THEN h[k].first_original
                                     ELSE [x |-> data.original_x, y |-> data.original_y],
                  x |-> data.x, y |-> data.y]
    IN  [j \in DOMAIN h \cup {k} |-> IF j = k THEN entry ELSE h[j]]

\* POST /api/update_coordinate
UpdateCoordinate(data) ==
    /\ nOps < MaxOps
    /\ coord_file' = UpdatedOverlay(coord_file, data)
    /\ setHist' = SetHistAfter(setHist, data)
    /\ last' = [op |-> "update_coordinate", req |-> data, resp |-> [success |-> TRUE]]
    /\ nOps' = nOps + 1
    /\ UNCHANGED <<annotations_file, out_tree, data_dir, csv_file, handlers, nWrites,
                   annotations, currentTaskId, markSeq, loaded,
                   coordAdjustments, taskData, currentStepIndex, progressBar>>

\* POST /api/annotate
Annotate(data) ==
    /\ nOps < MaxOps
    /\ annotations_file' = UpdatedAnnotations(annotations_file, data)
    /\ last' = [op |-> "annotate", req |-> data, resp |-> [success |-> TRUE]]
    /\ nOps' = nOps + 1
    /\ UNCHANGED <<coord_file, out_tree, data_dir, csv_file, setHist, handlers, nWrites,
                   annotations, currentTaskId, markSeq, loaded,
                   coordAdjustments, taskData, currentStepIndex, progressBar>>

\* Mutant: the task view answers and empties the overlay file.
TaskView_EmptiesOverlay(task_id) ==
    /\ nOps < MaxOps
    /\ last' = [op |-> "task", task_id |-> task_id, resp |-> NotFound]
    /\ coord_file' = EmptyDict
    /\ nOps' = nOps + 1
    /\ UNCHANGED <<annotations_file, out_tree, data_dir, csv_file, setHist,
                   handlers, nWrites, annotations, currentTaskId, markSeq, loaded,
                   coordAdjustments, taskData, currentStepIndex, progressBar>>

\* GET /api/task/<task_id>
TaskView(task_id) ==
    /\ nOps < MaxOps
    /\ last' = [op |-> "task", task_id |-> task_id,
                resp |-> api_task(DirOf(data_dir, task_id), coord_file, task_id)]
    /\ nOps' = nOps + 1
    /\ UNCHANGED <<annotations_file, coord_file, out_tree, data_dir, csv_file, setHist,
                   handlers, nWrites, annotations, currentTaskId, markSeq, loaded,
                   coordAdjustments, taskData, currentStepIndex, progressBar>>

\* POST /api/export
Export ==
    /\ nOps < MaxOps
    /\ out_tree' = ExportedTree(out_tree, annotations_file, csv_file, data_dir, coord_file)
    /\ last' = [op |-> "export", resp |-> ExportResponse(annotations_file)]
    /\ nOps' = nOps + 1
    /\ UNCHANGED <<annotations_file, coord_file, data_dir, csv_file, setHist, handlers,
                   nWrites, annotations, currentTaskId, markSeq, loaded,
                   coordAdjustments, taskData, currentStepIndex, progressBar>>

Next ==
    \/ \E data \in CoordRequests : UpdateCoordinate(data)
    \/ \E data \in AnnotateRequests : Annotate(data)
    \/ \E task_id \in TaskIds : TaskView(task_id)
    \/ Export

Spec == Init /\ [][Next]_vars

-----------------------------------------------------------------------------
(* Claims about the stores and the export, one request at a time *)

StoredAdj(k) == coord_file.val[AdjKey(k[1], k[2])]
SuppliedOriginal(data) == [x |-> data.original_x, y |-> data.original_y]
MarkOf(t) == JGet(DictGet(annotations_file, t), "mark", None)
HasPrefix(s, pre) == HasAt(s, 1, pre)

\* C1: after any sequence of set calls made one at a time, the stored original
\* of every key (task_id, step_index) is the supplied original of the first set
\* call ever made for that key.
C1_OriginalWriteOnce ==
    \A k \in DOMAIN setHist :
        /\ Has(coord_file, AdjKey(k[1], k[2]))
        /\ StoredAdj(k).original = setHist[k].first_original

\* A later set call for a key has supplied another original than the first, and
\* the first is what is stored.
C1_Witness ==
    /\ last.op = "update_coordinate"
    /\ SuppliedOriginal(last.req) # setHist[<<last.req.task_id, last.req.step_index>>].first_original
    /\ StoredAdj(<<last.req.task_id, last.req.step_index>>).original
            = setHist[<<last.req.task_id, last.req.step_index>>].first_original

\* The record of the combined dataset file that was written for task t, if any.
RecordsOf(t) == {i \in 1..Len(out_tree.all_tasks) : out_tree.all_tasks[i].task_id = ExportTaskId(t)}

\* C2: after every export run, the combined dataset file holds no record of a
\* task whose mark is fail or unset at that time: every record is that of a task
\* marked pass, whatever was exported before.
C2_DatasetGated ==
    last.op = "export" =>
        /\ out_tree.all_tasks_exists
        /\ \A t \in TaskIds : MarkOf(t) # "pass" => RecordsOf(t) = {}
        /\ \A i \in 1..Len(out_tree.all_tasks) :
                \E t \in TaskIds : MarkOf(t) = "pass" /\ i \in RecordsOf(t)

\* A task exported by an earlier run (its dataset file is still in the tree) is
\* marked fail now, and the run just made left it out of the combined file.
C2_Witness ==
    /\ last.op = "export"
    /\ \E t \in TaskIds :
        /\ TaskJsonPath(t) \in DOMAIN out_tree.task_json
        /\ MarkOf(t) = "fail"
        /\ RecordsOf(t) = {}

\* C3: after every export run, export.zip holds no per-task dataset file and no
\* screenshot of a task whose mark is fail or unset at that time.
C3_ArchiveGated ==
    last.op = "export" =>
        \A t \in TaskIds : MarkOf(t) # "pass" =>
            \A p \in out_tree.zip : ~HasPrefix(p, S_task_ \o t \o <<"/">>)

\* The call form of old (a code synthesized for a click at (ox, oy)) is kept in
\* new and the coordinate is (x, y).
SameClickForm(old, ox, oy, new, x, y) ==
    \/ old = DoubleClickCode(ox, oy) /\ new = DoubleClickCode(x, y)
    \/ old = RightClickCode(ox, oy) /\ new = RightClickCode(x, y)
    \/ old = TripleClickCode(ox, oy) /\ new = TripleClickCode(x, y)
    \/ old = ClickCode(ox, oy) /\ new = ClickCode(x, y)

\* The steps of task t as the normalizer returns them.
RawSteps(t) == load_task_data(DirOf(data_dir, t), t).steps

\* step (as normalized) is a click step with an adjustment, and code is what the
\* adjustment made of its code
AdjustedClickOk(t, step, code) ==
    (step.action = A_click /\ Has(coord_file, AdjKey(t, step.index))) =>
        SameClickForm(step.code, step.coordinate.x, step.coordinate.y, code,
                      coord_file.val[AdjKey(t, step.index)].x,
                      coord_file.val[AdjKey(t, step.index)].y)

\* C4: an adjustment with current (x', y') applied to a click step, in the task
\* view and in the export, keeps the call form of the step's code (doubleClick,
\* rightClick, click with clicks=3, plain click) and sets the coordinate to (x', y').
C4_VariantKept ==
    /\ (last.op = "task" /\ last.resp.found) =>
            \A k \in 1..Len(last.resp.steps) :
                AdjustedClickOk(last.task_id, RawSteps(last.task_id)[k], last.resp.steps[k].code)
    /\ last.op = "export" =>
            \A i \in 1..Len(out_tree.all_tasks) : \A t \in TaskIds :
                i \in RecordsOf(t) =>
                    \A k \in 1..Len(out_tree.all_tasks[i].traj) :
                        AdjustedClickOk(t, RawSteps(t)[k], out_tree.all_tasks[i].traj[k].code)

\* The export wrote doubleClick(150, 250) for the adjusted double click of task 1.
C4_Witness ==
    /\ last.op = "export"
    /\ RecordsOf(T1) # {}
    /\ RawSteps(T1)[1].code = DoubleClickCode(100, 200)
    /\ \A i \in RecordsOf(T1) : out_tree.all_tasks[i].traj[1].code = DoubleClickCode(150, 250)

\* C6: after every set call the persisted current (x, y) of its key is the
\* (new_x, new_y) of that call, so that after any sequence of set calls made one
\* at a time the current of a key is that of the last call for it.
C6_CurrentOverwritten ==
    /\ \A k \in DOMAIN setHist :
        /\ Has(coord_file, AdjKey(k[1], k[2]))
        /\ StoredAdj(k).x = setHist[k].x /\ StoredAdj(k).y = setHist[k].y
    /\ last.op = "update_coordinate" =>
        /\ StoredAdj(<<last.req.task_id, last.req.step_index>>).x = last.req.x
        /\ StoredAdj(<<last.req.task_id, last.req.step_index>>).y = last.req.y

\* A set call for a key that existed (its stored original is not the one this
\* call supplied) has replaced the current value.
C6_Witness ==
    /\ last.op = "update_coordinate"
    /\ StoredAdj(<<last.req.task_id, last.req.step_index>>).original # SuppliedOriginal(last.req)
    /\ StoredAdj(<<last.req.task_id, last.req.step_index>>).x = 150
    /\ StoredAdj(<<last.req.task_id, last.req.step_index>>).y = 250

-----------------------------------------------------------------------------
(* Concurrent coordinate set calls: each request handler reads the whole       *)
(* overlay file (lines 1518-1521), then writes the whole file (1540-1541).     *)

NumHandlers == 2
Handlers == 1..NumHandlers

\* Mutant: the handler holds a lock from its read to its write, so that what it
\* writes is built from the file as it is at the write.
OverlayToWrite_Locked(snapshot, file, data) == UpdatedOverlay(file, data)

\* lines 1524-1541: what json.dump writes is the dict the handler read earlier
\* with its own key set, whatever the file holds by now
OverlayToWrite(snapshot, file, data) == UpdatedOverlay(snapshot, data)

InitConc ==
    /\ ServerInit
    /\ data_dir \in DataDirs
    /\ handlers = [h \in Handlers |-> [pc |-> "idle"]]
    /\ nWrites = 0
    /\ annotations = EmptyDict
    /\ currentTaskId = None
    /\ markSeq = NoMarkSeq
    /\ loaded = NotFound
    /\ coordAdjustments = EmptyDict
    /\ taskData = <<>>
    /\ currentStepIndex = 0
    /\ progressBar = NoProgress

\* lines 1506-1521: the request arrives and the overlay file is read
ReadOverlay(h, data) ==
    /\ handlers[h].pc = "idle"
    /\ handlers' = [handlers EXCEPT ![h] = [pc |-> "read", req |-> data, snap |-> coord_file]]
    /\ UNCHANGED <<annotations_file, coord_file, out_tree, data_dir, csv_file, last, nOps,
                   setHist, nWrites, annotations, currentTaskId, markSeq, loaded,
                   coordAdjustments, taskData, currentStepIndex, progressBar>>

\* lines 1524-1543: the overlay file is written and success is returned
WriteOverlay(h) ==
    /\ handlers[h].pc = "read"
    /\ coord_file' = OverlayToWrite(handlers[h].snap, coord_file, handlers[h].req)
    /\ nWrites' = nWrites + 1
    /\ handlers' = [handlers EXCEPT ![h] =
                        [pc |-> "done", req |-> handlers[h].req, snap |-> handlers[h].snap,
                         resp |-> [success |-> TRUE], stamp |-> nWrites + 1]]
    /\ UNCHANGED <<annotations_file, out_tree, data_dir, csv_file, last, nOps, setHist,
                   annotations, currentTaskId, markSeq, loaded,
                   coordAdjustments, taskData, currentStepIndex, progressBar>>

NextConc ==
    \/ \E h \in Handlers : \E data \in CoordRequests : ReadOverlay(h, data)
    \/ \E h \in Handlers : WriteOverlay(h)

SpecConc == InitConc /\ [][NextConc]_vars

ReqKey(h) == AdjKey(handlers[h].req.task_id, handlers[h].req.step_index)

\* C5: two concurrent set calls for different steps can interleave so that,
\* after both have returned success, the persisted overlay lacks the entry one
\* of them wrote.  Stated for every interleaving: when a handler read the file
\* before another's entry was in it and wrote last, that other entry is gone,
\* although both returned success.
C5_LostUpdate ==
    \A h1 \in Handlers : \A h2 \in Handlers :
        ( /\ handlers[h1].pc = "done" /\ handlers[h2].pc = "done"
          /\ handlers[h1].resp.success /\ handlers[h2].resp.success
          /\ handlers[h2].stamp = nWrites
          /\ ReqKey(h1) # ReqKey(h2)
          /\ ~Has(handlers[h2].snap, ReqKey(h1)) )
        => ~Has(coord_file, ReqKey(h1))

\* Two set calls for different steps have both returned success and the
\* overlay lacks the entry of one of them.
C5_Witness ==
    \E h1 \in Handlers : \E h2 \in Handlers :
        /\ handlers[h1].pc = "done" /\ handlers[h2].pc = "done"
        /\ handlers[h1].resp.success /\ handlers[h2].resp.success
        /\ ReqKey(h1) # ReqKey(h2)
        /\ ~Has(coord_file, ReqKey(h1))
        /\ Has(coord_file, ReqKey(h2))

\* C32: with interleaved set calls too, once an original is persisted for a
\* key, every later persisted overlay that contains the key has that original
\* for it.  Stated for every write: a key that the overlay file holds before
\* and after the write keeps its original.
C32_OriginalKeptConcurrently ==
    [][\A h \in Handlers :
         WriteOverlay(h) =>
            \A k \in SeqRange(coord_file.keys) \cap SeqRange(coord_file'.keys) :
                coord_file'.val[k].original = coord_file.val[k].original]_vars

-----------------------------------------------------------------------------
(* Concurrent annotate calls: each request handler reads the whole annotation  *)
(* file (load_annotations, line 1481), then writes the whole file              *)
(* (save_annotations, line 1487).                                              *)

\* Mutant: the handler holds a lock from its read to its write, so that what it
\* writes is built from the file as it is at the write.
AnnotationsToWrite_Locked(snapshot, file, data) == UpdatedAnnotations(file, data)

\* lines 1481-1487: what json.dump writes is the dict the handler read earlier
\* with its own task's record set, whatever the file holds by now
AnnotationsToWrite(snapshot, file, data) == UpdatedAnnotations(snapshot, data)

InitConcAnn ==
    /\ ServerInit
    /\ data_dir = DataDirA
    /\ handlers = [h \in Handlers |-> [pc |-> "idle"]]
    /\ nWrites = 0
    /\ annotations = EmptyDict
    /\ currentTaskId = None
    /\ markSeq = NoMarkSeq
    /\ loaded = NotFound
    /\ coordAdjustments = EmptyDict
    /\ taskData = <<>>
    /\ currentStepIndex = 0
    /\ progressBar = NoProgress

\* lines 1475-1481: the request arrives and the annotation file is read
ReadAnnotations(h, data) ==
    /\ handlers[h].pc = "idle"
    /\ handlers' = [handlers EXCEPT ![h] =
                        [pc |-> "read", req |-> data, snap |-> annotations_file]]
    /\ UNCHANGED <<annotations_file, coord_file, out_tree, data_dir, csv_file, last, nOps,
                   setHist, nWrites, annotations, currentTaskId, markSeq, loaded,
                   coordAdjustments, taskData, currentStepIndex, progressBar>>

\* lines 1482-1489: the annotation file is written and success is returned
WriteAnnotations(h) ==
    /\ handlers[h].pc = "read"
    /\ annotations_file' = AnnotationsToWrite(handlers[h].snap, annotations_file,
                                              handlers[h].req)
    /\ nWrites' = nWrites + 1
    /\ handlers' = [handlers EXCEPT ![h] =
                        [pc |-> "done", req |-> handlers[h].req, snap |-> handlers[h].snap,
                         resp |-> [success |-> TRUE], stamp |-> nWrites + 1]]
    /\ UNCHANGED <<coord_file, out_tree, data_dir, csv_file, last, nOps, setHist,
                   annotations, currentTaskId, markSeq, loaded,
                   coordAdjustments, taskData, currentStepIndex, progressBar>>

NextConcAnn ==
    \/ \E h \in Handlers : \E data \in AnnotateRequests : ReadAnnotations(h, data)
    \/ \E h \in Handlers : WriteAnnotations(h)

SpecConcAnn == InitConcAnn /\ [][NextConcAnn]_vars

ReqTask(h) == handlers[h].req["task_id"]

\* C29: two concurrent annotate calls for different tasks can interleave so
\* that, after both have returned success, the persisted annotation store lacks
\* the record one of them wrote.  Stated for every interleaving: when a handler
\* read the file before another's record was in it and wrote last, that other
\* record is gone, although both returned success.
C29_LostAnnotation ==
    \A h1 \in Handlers : \A h2 \in Handlers :
        ( /\ handlers[h1].pc = "done" /\ handlers[h2].pc = "done"
          /\ handlers[h1].resp.success /\ handlers[h2].resp.success
          /\ handlers[h2].stamp = nWrites
          /\ ReqTask(h1) # ReqTask(h2)
          /\ ~Has(handlers[h2].snap, ReqTask(h1)) )
        => ~Has(annotations_file, ReqTask(h1))

\* Two annotate calls for different tasks have both returned success and the
\* store lacks the record of one of them.
C29_Witness ==
    \E h1 \in Handlers : \E h2 \in Handlers :
        /\ handlers[h1].pc = "done" /\ handlers[h2].pc = "done"
        /\ handlers[h1].resp.success /\ handlers[h2].resp.success
        /\ ReqTask(h1) # ReqTask(h2)
        /\ ~Has(annotations_file, ReqTask(h1))
        /\ Has(annotations_file, ReqTask(h2))

-----------------------------------------------------------------------------
(* The review page (the script of HTML_TEMPLATE) against the server, one       *)
(* reviewer, every handler run to completion before the next event.            *)

\* the least element of a non-empty sequence of numeric-looking ids, by int()
RECURSIVE SortedByInt(_)
SortedByInt(ids) ==
    IF Len(ids) = 0 THEN <<>>
    ELSE LET m == CHOOSE i \in 1..Len(ids) :
                    \A j \in 1..Len(ids) :
                        \/ StrToNat(ids[i]) < StrToNat(ids[j])
                        \/ StrToNat(ids[i]) = StrToNat(ids[j]) /\ i <= j
         IN  <<ids[m]>> \o SortedByInt(SubSeq(ids, 1, m - 1) \o SubSeq(ids, m + 1, Len(ids)))

\* api_init, line 1421, for a registry of numeric-looking ids
task_order(tasks) == SortedByInt(tasks.keys)

\* annotations[currentTaskId].<field> = value, after
\* if (!annotations[currentTaskId]) annotations[currentTaskId] = {}
WithField(anns, task_id, field, value) ==
    LET ann == DictGet(anns, task_id)
    IN  Put(anns, task_id, [f \in DOMAIN ann \cup {field} |-> IF f = field THEN value ELSE ann[f]])

\* Mutant: the mark is stored in a fresh object, which drops the other fields.
MarkSet_FreshObject(anns, task_id, mark) == Put(anns, task_id, [mark |-> mark])

\* setMark, lines 1076-1077
MarkSet(anns, task_id, mark) == WithField(anns, task_id, "mark", mark)

\* Mutant: the rating is stored in a fresh scores object.
RatingSet_FreshScores(anns, task_id, dimension, value) ==
    WithField(anns, task_id, "scores", [d \in {dimension} |-> value])

\* setCaseRating, lines 1088-1090
RatingSet(anns, task_id, dimension, value) ==
    LET scores == JGet(DictGet(anns, task_id), "scores", <<>>)
    IN  WithField(anns, task_id, "scores",
                  [d \in DOMAIN scores \cup {dimension} |->
                        IF d = dimension THEN value ELSE scores[d]])

\* updatePassReason, lines 1097-1098
ReasonSet(anns, task_id, reason) == WithField(anns, task_id, "pass_reason", reason)

\* saveAnnotation, lines 1104-1113: the body POSTed (JSON.stringify leaves out
\* a mark that is undefined)
SaveBody(anns, task_id) ==
    LET ann == DictGet(anns, task_id)
        body == [task_id |-> task_id,
                 pass_reason |-> JGet(ann, "pass_reason", <<>>),
                 scores |-> JGet(ann, "scores", <<>>)]
    IN  IF "mark" \in DOMAIN ann
        THEN [f \in DOMAIN body \cup {"mark"} |-> IF f = "mark" THEN ann["mark"] ELSE body[f]]
        ELSE body

RatingInputs == {<<"correctness", 5>>, <<"difficulty", 4>>}
ReasonInputs == {R_ok}

InitUI ==
    /\ ServerInit
    /\ data_dir = DataDirA
    /\ handlers = <<>>
    /\ nWrites = 0
    /\ annotations = EmptyDict
    /\ currentTaskId = None
    /\ markSeq = NoMarkSeq
    /\ loaded = NotFound
    /\ coordAdjustments = EmptyDict
    /\ taskData = <<>>
    /\ currentStepIndex = 0
    /\ progressBar = NoProgress

ServerUnchangedUI ==
    UNCHANGED <<coord_file, out_tree, data_dir, csv_file, last, nOps, setHist, handlers,
                nWrites, loaded,
                coordAdjustments, taskData, currentStepIndex, progressBar>>

\* init(), lines 821-834: the page loads (or is reloaded) and selects the first task
PageInit ==
    /\ annotations' = annotations_file
    /\ currentTaskId' = IF Len(task_order(csv_file)) > 0 THEN task_order(csv_file)[1] ELSE None
    /\ markSeq' = NoMarkSeq
    /\ UNCHANGED annotations_file
    /\ ServerUnchangedUI

\* selectTask(taskId), lines 883-885
SelectTask(taskId) ==
    /\ currentTaskId # None
    /\ currentTaskId' = taskId
    /\ markSeq' = NoMarkSeq
    /\ UNCHANGED <<annotations, annotations_file>>
    /\ ServerUnchangedUI

\* what the store holds for a task, absent read as unset (section 4.4's get)
Persisted(file, task_id) ==
    [mark |-> JGet(DictGet(file, task_id), "mark", None),
     pass_reason |-> JGet(DictGet(file, task_id), "pass_reason", <<>>),
     scores |-> JGet(DictGet(file, task_id), "scores", <<>>)]

\* history: where a run of setMark('pass'), setMark('fail'), setMark(null) on one
\* task stands, and the scores and reason persisted before it began
MarkSeqAfter(seq, task_id, mark, before) ==
    IF mark = "pass" THEN [pos |-> 1, task_id |-> task_id, before |-> before]
    ELSE IF mark = "fail" /\ seq.pos = 1 /\ seq.task_id = task_id THEN [seq EXCEPT !.pos = 2]
    ELSE IF mark = None /\ seq.pos = 2 /\ seq.task_id = task_id THEN [seq EXCEPT !.pos = 3]
    ELSE NoMarkSeq

\* setMark(mark), lines 1073-1084, with saveAnnotation and api_annotate
SetMark(mark) ==
    /\ currentTaskId # None
    /\ annotations' = MarkSet(annotations, currentTaskId, mark)
    /\ annotations_file' = UpdatedAnnotations(annotations_file, SaveBody(annotations', currentTaskId))
    /\ markSeq' = MarkSeqAfter(markSeq, currentTaskId, mark,
                               Persisted(annotations_file, currentTaskId))
    /\ UNCHANGED currentTaskId
    /\ ServerUnchangedUI

\* setCaseRating(dimension, value), lines 1086-1093
SetCaseRating(dimension, value) ==
    /\ currentTaskId # None
    /\ annotations' = RatingSet(annotations, currentTaskId, dimension, value)
    /\ annotations_file' = UpdatedAnnotations(annotations_file, SaveBody(annotations', currentTaskId))
    /\ markSeq' = NoMarkSeq
    /\ UNCHANGED currentTaskId
    /\ ServerUnchangedUI

\* updatePassReason(reason), lines 1095-1100
UpdatePassReason(reason) ==
    /\ currentTaskId # None
    /\ annotations' = ReasonSet(annotations, currentTaskId, reason)
    /\ annotations_file' = UpdatedAnnotations(annotations_file, SaveBody(annotations', currentTaskId))
    /\ markSeq' = NoMarkSeq
    /\ UNCHANGED currentTaskId
    /\ ServerUnchangedUI

NextUI ==
    \/ PageInit
    \/ \E taskId \in TaskIds : SelectTask(taskId)
    \/ \E mark \in Marks : SetMark(mark)
    \/ \E r \in RatingInputs : SetCaseRating(r[1], r[2])
    \/ \E reason \in ReasonInputs : UpdatePassReason(reason)

SpecUI == InitUI /\ [][NextUI]_vars

\* C7: for a task with scores and a reason recorded, the reviewer sequence
\* setMark(pass), setMark(fail), setMark(unclear) ends with the persisted mark
\* unset, and after each of the three steps the persisted scores and reason are
\* those persisted before the sequence.
C7_MarkRoundTrip ==
    markSeq.pos >= 1 =>
        LET now == Persisted(annotations_file, markSeq.task_id)
        IN  /\ now.scores = markSeq.before.scores
            /\ now.pass_reason = markSeq.before.pass_reason
            /\ now.mark = (CASE markSeq.pos = 1 -> "pass" [] markSeq.pos = 2 -> "fail"
                             [] markSeq.pos = 3 -> None)

\* The three steps have been made on a task that had scores and a reason.
C7_Witness ==
    /\ markSeq.pos = 3
    /\ markSeq.before.scores # <<>>
    /\ markSeq.before.pass_reason # <<>>
    /\ Has(annotations_file, markSeq.task_id)
    /\ annotations_file.val[markSeq.task_id].mark = None

\* C28: when the reviewer sets one rubric dimension, the persisted annotation
\* of the current task has that dimension at the new value afterwards, and its
\* other dimensions, its mark and its reason are what they were.
C28_RatingKeepsRest ==
    [][\A r \in RatingInputs :
         SetCaseRating(r[1], r[2]) =>
            LET before == Persisted(annotations_file, currentTaskId)
                after == Persisted(annotations_file', currentTaskId)
            IN  /\ after.mark = before.mark
                /\ after.pass_reason = before.pass_reason
                /\ DOMAIN after.scores = DOMAIN before.scores \cup {r[1]}
                /\ after.scores[r[1]] = r[2]
                /\ \A d \in DOMAIN before.scores \ {r[1]} : after.scores[d] = before.scores[d]]_vars

\* Task 1 is persisted as passed with its reason and with both ratings the
\* reviewer set, one after the other.
C28_Witness ==
    /\ currentTaskId # None
    /\ currentTaskId = T1
    /\ Has(annotations_file, T1)
    /\ annotations_file.val[T1] = [mark |-> "pass", pass_reason |-> R_ok,
                                   scores |-> [correctness |-> 5, difficulty |-> 4]]

-----------------------------------------------------------------------------
(* The fine-tune panel of the review page against the server: one reviewer,   *)
(* every handler run to completion, and an overlay file whose opening for     *)
(* writing (line 1540) can fail.                                               *)

\* the (x, y) the reviewer enters in the panel
PanelPoints == {<<7, 8>>, <<150, 250>>}

\* api_update_coordinate, lines 1503-1543, when open(coord_file, 'w') may raise:
\* the overlay file afterwards and the response (the exception is answered 500
\* and leaves the file as it was)
OverlayWrite(file, data, write_ok) ==
    IF write_ok
    THEN [file |-> UpdatedOverlay(file, data), resp |-> [status |-> 200, success |-> TRUE]]
    ELSE [file |-> file, resp |-> [status |-> 500]]

\* selectTask, lines 890-894: the task is fetched unless the page holds it
Fetched(td, dirs, coord_adjustments, taskId) ==
    IF taskId \in DOMAIN td THEN td
    ELSE td @@ (taskId :> api_task(DirOf(dirs, taskId), coord_adjustments, taskId))

\* saveCoordinate, lines 1192-1218: the body POSTed; step.coordinate is what
\* renderContent left in window.originalCoords (line 1069)
SaveCoordinateBody(adjustments, task_id, step_index, step, x, y) ==
    LET adjKey == AdjKey(task_id, step_index)
        orig == IF Has(adjustments, adjKey) /\ "original" \in DOMAIN adjustments.val[adjKey]
                THEN adjustments.val[adjKey].original
                ELSE step.coordinate
    IN  [task_id |-> task_id, step_index |-> step_index, x |-> x, y |-> y,
         original_x |-> orig.x, original_y |-> orig.y]

\* saveCoordinate, lines 1208-1228: the response of fetch is not looked at
AdjustmentsAfterSave(adjustments, body, resp) ==
    Put(adjustments, AdjKey(body.task_id, body.step_index),
        [task_id |-> body.task_id, step_index |-> body.step_index,
         x |-> body.x, y |-> body.y,
         original |-> [x |-> body.original_x, y |-> body.original_y]])

\* Mutant: the page moves the marker and leaves the code of the step as it was.
StepAfterSave_CoordinateOnly(step, x, y) ==
    [step EXCEPT !.coordinate = [x |-> x, y |-> y]]

\* saveCoordinate, lines 1231-1251
StepAfterSave(step, x, y) ==
    [step EXCEPT !.coordinate = [x |-> x, y |-> y],
                 !.code = PageCode(step.action, step.code, x, y)]

\* The data directory the panel is exercised on: a double click, a drag with
\* its two points in the description, and a drag without them.
DataDirP ==
    (T1 :> Dir(<<Ev(A_click, D_double, 100, 200), Ev(A_drag, D_drag, 1, 2)>>, NoLog, GoodVideo))
        @@ (T2 :> Dir(<<Ev(A_drag, D_move, 5, 6)>>, NoLog, GoodVideo))

InitPanel ==
    /\ ServerInit
    /\ data_dir = DataDirP
    /\ IdleRest

\* init(), lines 823-836, with the selectTask(taskOrder[0]) it ends in
PanelInit ==
    /\ Len(task_order(csv_file)) > 0
    /\ annotations' = annotations_file
    /\ coordAdjustments' = coord_file
    /\ currentTaskId' = task_order(csv_file)[1]
    /\ currentStepIndex' = 0
    /\ taskData' = Fetched(<<>>, data_dir, coord_file, task_order(csv_file)[1])
    /\ last' = [op |-> "init"]
    /\ UNCHANGED <<annotations_file, coord_file, out_tree, data_dir, csv_file, nOps, setHist,
                   handlers, nWrites, markSeq, loaded, progressBar>>

\* selectTask(taskId), lines 883-912
PanelSelectTask(taskId) ==
    /\ currentTaskId # None
    /\ currentTaskId' = taskId
    /\ currentStepIndex' = 0
    /\ taskData' = Fetched(taskData, data_dir, coord_file, taskId)
    /\ UNCHANGED <<annotations_file, coord_file, out_tree, data_dir, csv_file, last, nOps,
                   setHist, handlers, nWrites, annotations, markSeq, loaded,
                   coordAdjustments, progressBar>>

\* the page holds the current task (line 915)
TaskShown ==
    /\ currentTaskId # None
    /\ currentTaskId \in DOMAIN taskData
    /\ taskData[currentTaskId].found

\* prevStep(), lines 1304-1309
PrevStep ==
    /\ TaskShown
    /\ currentStepIndex > 0
    /\ currentStepIndex' = currentStepIndex - 1
    /\ UNCHANGED <<annotations_file, coord_file, out_tree, data_dir, csv_file, last, nOps,
                   setHist, handlers, nWrites, annotations, currentTaskId, markSeq, loaded,
                   coordAdjustments, taskData, progressBar>>

\* nextStep(), lines 1311-1317
NextStep ==
    /\ TaskShown
    /\ currentStepIndex < Len(taskData[currentTaskId].steps) - 1
    /\ currentStepIndex' = currentStepIndex + 1
    /\ UNCHANGED <<annotations_file, coord_file, out_tree, data_dir, csv_file, last, nOps,
                   setHist, handlers, nWrites, annotations, currentTaskId, markSeq, loaded,
                   coordAdjustments, taskData, progressBar>>

\* saveCoordinate(), lines 1184-1256, with the api_update_coordinate it calls;
\* the panel is offered for a step that has a coordinate (line 1025)
SaveCoordinate(x, y, write_ok) ==
    /\ TaskShown
    /\ currentStepIndex < Len(taskData[currentTaskId].steps)
    /\ taskData[currentTaskId].steps[currentStepIndex + 1].has_coordinate
    /\ LET step == taskData[currentTaskId].steps[currentStepIndex + 1]
           body == SaveCoordinateBody(coordAdjustments, currentTaskId, currentStepIndex,
                                      step, x, y)
           written == OverlayWrite(coord_file, body, write_ok)
       IN  /\ coord_file' = written.file
           /\ last' = [op |-> "save_coordinate", req |-> body, resp |-> written.resp,
                       shown |-> step.coordinate]
           /\ coordAdjustments' = AdjustmentsAfterSave(coordAdjustments, body, written.resp)
           /\ taskData' = [taskData EXCEPT
                             ![currentTaskId].steps[currentStepIndex + 1] =
                                 StepAfterSave(step, x, y)]
    /\ UNCHANGED <<annotations_file, out_tree, data_dir, csv_file, nOps, setHist, handlers,
                   nWrites, annotations, currentTaskId, markSeq, loaded, currentStepIndex,
                   progressBar>>

NextPanel ==
    \/ PanelInit
    \/ \E taskId \in TaskIds : PanelSelectTask(taskId)
    \/ PrevStep
    \/ NextStep
    \/ \E p \in PanelPoints, write_ok \in BOOLEAN : SaveCoordinate(p[1], p[2], write_ok)

SpecPanel == InitPanel /\ [][NextPanel]_vars

\* C24: when the write of the overlay file fails during a coordinate set, the
\* call is not answered as a success, and the page neither records the
\* correction in its adjustments nor shows the step at the new coordinate.
C24_FailedWriteNotShown ==
    (last.op = "save_coordinate" /\ last.resp.status # 200) =>
        LET key == AdjKey(last.req.task_id, last.req.step_index)
        IN  /\ "success" \notin DOMAIN last.resp
            /\ Has(coordAdjustments, key) =>
                  /\ Has(coord_file, key)
                  /\ coordAdjustments.val[key].x = coord_file.val[key].x
                  /\ coordAdjustments.val[key].y = coord_file.val[key].y
            /\ taskData[last.req.task_id].steps[last.req.step_index + 1].coordinate = last.shown

\* every adjustment the page holds is the one the overlay file holds: each
\* save of the page was written
PageAgreesWithStore ==
    /\ SeqRange(coordAdjustments.keys) = SeqRange(coord_file.keys)
    /\ \A key \in SeqRange(coord_file.keys) :
          /\ coordAdjustments.val[key].x = coord_file.val[key].x
          /\ coordAdjustments.val[key].y = coord_file.val[key].y

\* the codes of the click and drag steps of task t: the page's, those of a
\* fresh api_task and those of api_export; steps is what load_task_data gives
SameCodes(t, steps) ==
    \A k \in 1..Len(steps) :
        steps[k].action \in {A_click, A_drag} =>
            /\ taskData[t].steps[k].code = TaskSteps(steps, coord_file, t)[k].code
            /\ taskData[t].steps[k].code = Traj(t, steps, coord_file)[k].code

\* C33: for every click or drag step and every sequence of saved adjustments
\* to it by one reviewer, the code the page keeps after saveCoordinate, the
\* code api_task returns on a fresh load and the code api_export emits for the
\* step are the same.
C33_SameCodeEverywhere ==
    (TaskShown /\ PageAgreesWithStore) =>
        SameCodes(currentTaskId, load_task_data(DirOf(data_dir, currentTaskId), currentTaskId).steps)

\* The drag step of task 1 has been saved a second time, at another point
\* than the first time, and the click step has been saved as well.
C33_Witness ==
    /\ TaskShown
    /\ PageAgreesWithStore
    /\ last.op = "save_coordinate"
    /\ last.resp.status = 200
    /\ last.req.task_id = T1
    /\ last.req.step_index = 1
    /\ last.shown # [x |-> last.req.original_x, y |-> last.req.original_y]
    /\ last.shown # [x |-> last.req.x, y |-> last.req.y]
    /\ Has(coord_file, AdjKey(T1, 0))

-----------------------------------------------------------------------------
(* Frame Source: the <img> of renderContent and serve_frame *)

\* `${step.video_time}` of line 1062: a JavaScript number as text; v is the time
\* in hundredths of a second.  A whole number has no decimal point, trailing
\* zeros of the fraction are left out, a negative number starts with "-".
JsNumberText(v) ==
    LET a == IF v < 0 THEN -v ELSE v
        whole == NatToStr(a \div 100)
        frac == a % 100
        digits == IF frac = 0 THEN <<>>
                  ELSE IF frac % 10 = 0 THEN <<".", Digit(frac \div 10)>>
                  ELSE <<".", Digit(frac \div 10), Digit(frac % 10)>>
    IN  (IF v < 0 THEN <<"-">> ELSE <<>>) \o whole \o digits

\* <float:video_time> of line 1545: the path segment is digits, a point and
\* digits (the route's float converter, unsigned)
FloatConverterMatch(text) ==
    LET dot == DigitsEnd(text, 1)
    IN  /\ dot > 1
        /\ HasAt(text, dot, <<".">>)
        /\ DigitsEnd(text, dot + 1) > dot + 1
        /\ DigitsEnd(text, dot + 1) = Len(text) + 1

\* float(text) of a matched segment, in hundredths of a second (digits past
\* the second decimal are cut)
ParseFloatText(text) ==
    LET neg == HasAt(text, 1, <<"-">>)
        from == IF neg THEN 2 ELSE 1
        dot == DigitsEnd(text, from)
        whole == StrToNat(SubSeq(text, from, dot - 1))
        frac == IF dot > Len(text) THEN <<>> ELSE SubSeq(text, dot + 1, Len(text))
        cents == IF Len(frac) = 0 THEN 0
                 ELSE IF Len(frac) = 1 THEN 10 * StrToNat(frac)
                 ELSE StrToNat(SubSeq(frac, 1, 2))
    IN  IF neg THEN -(100 * whole + cents) ELSE 100 * whole + cents

\* serve_frame, lines 1545-1577, for GET /frame/<task_id>/<text>; d is the
\* task's directory
serve_frame(d, text) ==
    IF ~FloatConverterMatch(text) THEN [status |-> 404, body |-> "no route"]
    ELSE IF ~d.exists \/ ~d.video.exists THEN [status |-> 404, body |-> "Video not found"]
    ELSE IF FrameRead(d.video, FrameNum(d.video, ParseFloatText(text)))
         THEN [status |-> 200, body |-> "image/jpeg",
               frame_num |-> FrameNum(d.video, ParseFloatText(text))]
         ELSE [status |-> 500, body |-> "Frame extraction failed"]

-----------------------------------------------------------------------------
(* The normalizer on its own: one task directory drawn from the inputs below,  *)
(* then load_task_data.                                                        *)

PreMoveTimes == {-500, 0, 1000, 1200}
StartTimes == {0, 900}

\* the timing fields of a complete-log event; a field left out is absent
TimingFields ==
    LET pre_moves == {<<>>, [pre_move |-> <<>>]}
            \cup {[pre_move |-> [end_time |-> e]] : e \in PreMoveTimes}
            \cup {[pre_move |-> [start_time |-> b]] : b \in PreMoveTimes}
            \cup {[pre_move |-> [start_time |-> b, end_time |-> e]] :
                    b \in PreMoveTimes, e \in PreMoveTimes}
        starts == {<<>>} \cup {[start_time |-> t] : t \in StartTimes}
    IN  {p @@ t : p \in pre_moves, t \in starts}

CompleteEvents ==
    {f @@ d @@ [action |-> A_click, justification |-> J_why,
                coordinate |-> [x |-> 100, y |-> 200]] :
        f \in TimingFields, d \in {<<>>, [description |-> D_plain]}}

SecondEvent == Ev(A_drag, D_drag, 1, 2)

\* the action and coordinate fields of a complete-log event; a field or an axis
\* left out is absent
A_move == <<"m", "o", "v", "e">>
ActionFields == {<<>>} \cup {[action |-> a] : a \in {A_click, A_drag, A_scroll, A_type, A_move}}
CoordFields ==
    {<<>>, [coordinate |-> <<>>], [coordinate |-> [x |-> 5]], [coordinate |-> [y |-> 5]],
     [coordinate |-> [x |-> 0, y |-> 0]], [coordinate |-> [x |-> 0, y |-> 7]],
     [coordinate |-> [x |-> 100, y |-> 200]]}
ShapeEvents ==
    {a @@ c @@ [description |-> D_plain, start_time |-> 900] :
        a \in ActionFields, c \in CoordFields}

CompleteLogs ==
    {<<>>} \cup {<<e>> : e \in CompleteEvents} \cup {<<e, SecondEvent>> : e \in CompleteEvents}
        \cup {<<e>> : e \in ShapeEvents}

\* a visible event: without a description, with an empty one, with one
VisEvents == {<<>>, [description |-> <<>>], [description |-> D_double]}

VisLogs ==
    {NoLog, [exists |-> TRUE, events |-> <<>>]}
        \cup {[exists |-> TRUE, events |-> <<v>>] : v \in VisEvents}
        \cup {[exists |-> TRUE, events |-> <<v, [description |-> D_right]>>] : v \in VisEvents}

Metadatas == {<<>>, [video_start_timestamp |-> 100]}

NormDirs ==
    {NoDir}
        \cup {[exists |-> TRUE, metadata |-> m, video |-> GoodVideo, vis |-> v, complete |-> NoLog] :
                m \in Metadatas, v \in VisLogs}
        \cup {[exists |-> TRUE, metadata |-> m, video |-> GoodVideo, vis |-> v,
               complete |-> [exists |-> TRUE, events |-> c]] :
                m \in Metadatas, v \in VisLogs, c \in CompleteLogs}

InitNorm ==
    /\ ServerInit
    /\ \E d \in NormDirs : data_dir = (T1 :> d)
    /\ IdleRest

\* load_task_data(task_id) is called
LoadTaskData(task_id) ==
    /\ last.op = "none"
    /\ loaded' = load_task_data(DirOf(data_dir, task_id), task_id)
    /\ last' = [op |-> "load", task_id |-> task_id]
    /\ UNCHANGED <<annotations_file, coord_file, out_tree, data_dir, csv_file, nOps, setHist,
                   handlers, nWrites, annotations, currentTaskId, markSeq,
                   coordAdjustments, taskData, currentStepIndex, progressBar>>

\* renderContent, line 1062: the page asks for the frame of step k of the task
\* it was given (api_task hands video_time on as load_task_data returned it)
RequestFrame(k) ==
    /\ last.op = "load"
    /\ loaded.found
    /\ k \in 1..Len(loaded.steps)
    /\ last' = [op |-> "frame", task_id |-> last.task_id, k |-> k,
                text |-> JsNumberText(loaded.steps[k].video_time),
                resp |-> serve_frame(DirOf(data_dir, last.task_id),
                                     JsNumberText(loaded.steps[k].video_time))]
    /\ UNCHANGED <<annotations_file, coord_file, out_tree, data_dir, csv_file, nOps, setHist,
                   handlers, nWrites, annotations, currentTaskId, markSeq, loaded,
                   coordAdjustments, taskData, currentStepIndex, progressBar>>

NextNorm ==
    \/ \E task_id \in {T1} : LoadTaskData(task_id)
    \/ \E k \in 1..2 : RequestFrame(k)

SpecNorm == InitNorm /\ [][NextNorm]_vars

TheDir == DirOf(data_dir, T1)
CompleteOf(k) == TheDir.complete.events[k]
VisibleOf(k) ==
    IF TheDir.vis.exists /\ k <= Len(TheDir.vis.events) THEN TheDir.vis.events[k] ELSE <<>>
Returned == last.op \in {"load", "frame"}
\* the raw coordinate of complete event k, a missing axis taken as 0
RawCoordinate(k) ==
    LET coord == JGet(CompleteOf(k), "coordinate", <<>>)
    IN  [x |-> JGet(coord, "x", 0), y |-> JGet(coord, "y", 0)]

\* C8: for every complete-log event whose pre_move has both start_time and
\* end_time, whatever their values, the capture time is
\* pm_start + 0.8 * (pm_end - pm_start), whatever the event's own start_time.
C8_FullWindowRule ==
    (Returned /\ loaded.found) =>
        \A k \in 1..Len(loaded.steps) :
            LET pm == JGet(CompleteOf(k), "pre_move", <<>>)
            IN  ("start_time" \in DOMAIN pm /\ "end_time" \in DOMAIN pm) =>
                    loaded.steps[k].video_time + loaded.video_start_ts
                        = pm["start_time"] + ((8 * (pm["end_time"] - pm["start_time"])) \div 10)

\* C9: load_task_data is all or nothing: without the task directory or the
\* complete log it returns not-found and no steps; otherwise exactly one step
\* per complete-log event, indexed 0..n-1 in log order, whether the visible log
\* is absent, shorter than or as long as the complete log.
C9_AllOrNothing ==
    Returned =>
        IF ~TheDir.exists \/ ~TheDir.complete.exists THEN loaded = NotFound
        ELSE /\ loaded.found
             /\ Len(loaded.steps) = Len(TheDir.complete.events)
             /\ \A k \in 1..Len(loaded.steps) :
                    /\ loaded.steps[k].index = k - 1
                    /\ loaded.steps[k].action = JGet(CompleteOf(k), "action", <<>>)
                    /\ loaded.steps[k].coordinate = RawCoordinate(k)

\* Two steps were returned for a complete log of two events whose visible log
\* has one.
C9_Witness ==
    /\ Returned
    /\ loaded.found
    /\ Len(loaded.steps) = 2
    /\ TheDir.vis.exists /\ Len(TheDir.vis.events) = 1
    /\ loaded.steps[2].action = A_drag

\* C10: the step's description is the visible event's description when that
\* event exists and its description is present and non-empty, and the complete
\* event's description in every other case.
C10_DescriptionChoice ==
    (Returned /\ loaded.found) =>
        \A k \in 1..Len(loaded.steps) :
            loaded.steps[k].description =
                IF "description" \in DOMAIN VisibleOf(k) /\ VisibleOf(k)["description"] # <<>>
                THEN VisibleOf(k)["description"]
                ELSE JGet(CompleteOf(k), "description", <<>>)

\* the capture time of returned step k: video_time before the recording start
\* offset was subtracted
CaptureOf(k) == loaded.steps[k].video_time + loaded.video_start_ts
PreMoveOf(k) == JGet(CompleteOf(k), "pre_move", <<>>)

\* C11: for every step, has_coordinate is true exactly when the action is click
\* or drag and the raw coordinate, missing axes taken as 0, differs from (0,0).
C11_HasCoordinate ==
    (Returned /\ loaded.found) =>
        \A k \in 1..Len(loaded.steps) :
            loaded.steps[k].has_coordinate
                = (/\ JGet(CompleteOf(k), "action", <<>>) \in {A_click, A_drag}
                   /\ RawCoordinate(k) # [x |-> 0, y |-> 0])

\* A drag step whose coordinate has only the y axis was returned with
\* has_coordinate true.
C11_Witness ==
    /\ Returned
    /\ loaded.found
    /\ Len(loaded.steps) = 1
    /\ JGet(CompleteOf(1), "action", <<>>) = A_drag
    /\ JGet(CompleteOf(1), "coordinate", <<>>) = [y |-> 5]
    /\ loaded.steps[1].has_coordinate

\* C12: for every complete-log event whose pre_move has an end_time but no
\* start_time, the capture time is max(0, pm_end - 0.3).
C12_EndOnlyRule ==
    (Returned /\ loaded.found) =>
        \A k \in 1..Len(loaded.steps) :
            ("end_time" \in DOMAIN PreMoveOf(k) /\ "start_time" \notin DOMAIN PreMoveOf(k)) =>
                CaptureOf(k) = Max(0, PreMoveOf(k)["end_time"] - 30)

\* C13: for every complete-log event with no pre_move, or with a pre_move that
\* has no end_time, the capture time is max(0, start_time - 0.1), a missing
\* start_time taken as 0; and the normalizer returns a step for it.
C13_StartRule ==
    Returned =>
        /\ (TheDir.exists /\ TheDir.complete.exists) =>
                loaded.found /\ Len(loaded.steps) = Len(TheDir.complete.events)
        /\ loaded.found =>
                \A k \in 1..Len(loaded.steps) :
                    "end_time" \notin DOMAIN PreMoveOf(k) =>
                        CaptureOf(k) = Max(0, JGet(CompleteOf(k), "start_time", 0) - 10)

\* A step was returned for an event whose pre_move has a start_time only and
\* that has no start_time of its own.
C13_Witness ==
    /\ Returned
    /\ loaded.found
    /\ Len(loaded.steps) >= 1
    /\ PreMoveOf(1) = [start_time |-> 1000]
    /\ "start_time" \notin DOMAIN CompleteOf(1)
    /\ CaptureOf(1) = 0

\* C14: for every event and every value of its timing fields, the capture time
\* from which the recording start offset is subtracted is >= 0.
C14_CaptureNonNegative ==
    (Returned /\ loaded.found) =>
        \A k \in 1..Len(loaded.steps) : CaptureOf(k) >= 0

\* C15: a set call of the annotation store replaces the task's whole record by
\* what the call supplies: a field the call leaves out is stored as its default
\* (mark null, reason empty, scores empty), and the stored scores hold the
\* supplied dimensions only.
C15_FullReplace ==
    last.op = "annotate" =>
        LET record == annotations_file.val[last.req["task_id"]]
        IN  /\ DOMAIN record = {"mark", "pass_reason", "scores"}
            /\ record.mark = IF "mark" \in DOMAIN last.req THEN last.req["mark"] ELSE None
            /\ record.pass_reason = IF "pass_reason" \in DOMAIN last.req
                                     THEN last.req["pass_reason"] ELSE <<>>
            /\ record.scores = IF "scores" \in DOMAIN last.req
                                THEN last.req["scores"] ELSE <<>>

\* Task 1 was exported as passed with its reason and a correctness score, and a
\* later set call that supplied the task id only left its record at the defaults.
C15_Witness ==
    /\ last.op = "annotate"
    /\ last.req = [task_id |-> T1]
    /\ \E k \in 1..Len(out_tree.all_tasks) :
            /\ out_tree.all_tasks[k].task_id = ExportTaskId(T1)
            /\ out_tree.all_tasks[k].scores.correctness = 5
            /\ out_tree.all_tasks[k].pass_reason = R_ok
    /\ annotations_file.val[T1] = [mark |-> None, pass_reason |-> <<>>, scores |-> <<>>]

\* C16: the count an export run returns is the number of tasks it exported, that
\* is the number of records of the combined dataset file it wrote.
C16_CountIsExported ==
    last.op = "export" => last.resp.count = Len(out_tree.all_tasks)

\* C17: after an export run the combined dataset holds exactly one record for
\* every task whose mark is pass and for which the normalizer returns steps,
\* whether or not its frames can be had.
C17_EveryPassedTaskExported ==
    last.op = "export" =>
        \A t \in TaskIds :
            (MarkOf(t) = "pass" /\ load_task_data(DirOf(data_dir, t), t).found) =>
                Cardinality(RecordsOf(t)) = 1

\* C18: the trajectory of every exported task has one entry per normalized
\* step, in index order, each naming the screenshot task_<id>/step_<index>.png,
\* whether or not a frame was read for the step.
C18_TrajPerStep ==
    \A t \in TaskIds : \A i \in RecordsOf(t) :
        /\ Len(out_tree.all_tasks[i].traj) = Len(RawSteps(t))
        /\ \A k \in 1..Len(out_tree.all_tasks[i].traj) :
            /\ out_tree.all_tasks[i].traj[k].index = k - 1
            /\ out_tree.all_tasks[i].traj[k].index = RawSteps(t)[k].index
            /\ out_tree.all_tasks[i].traj[k].screenshot
                    = S_task_ \o t \o <<"/">> \o S_step_ \o IntToStr(k - 1) \o S_png

\* Task 1, whose video gives no frame, was exported with both its steps, and
\* the screenshots they name were not written.
C18_Witness ==
    /\ last.op = "export"
    /\ DirOf(data_dir, T1).video = BadVideo
    /\ \E i \in RecordsOf(T1) : Len(out_tree.all_tasks[i].traj) = 2
    /\ ScreenshotPath(T1, 0) \notin out_tree.screenshots
    /\ ScreenshotPath(T1, 1) \notin out_tree.screenshots

\* code is a call that carries (x, y) as its leading arguments
Carries(code, x, y) == Contains(code, <<"(">> \o IntToStr(x) \o S_sep \o IntToStr(y))

\* C19: for every exported click or drag step that has an adjustment, the
\* exported code carries the adjustment's current (x, y) and no longer the raw
\* event coordinate, whatever form the synthesizer gave the code.
C19_AdjustedCodeCurrent ==
    last.op = "export" =>
        \A t \in TaskIds : \A i \in RecordsOf(t) :
            \A k \in 1..Len(out_tree.all_tasks[i].traj) :
                (/\ RawSteps(t)[k].action \in {A_click, A_drag}
                 /\ Has(coord_file, AdjKey(t, k - 1))) =>
                    /\ Carries(out_tree.all_tasks[i].traj[k].code,
                               coord_file.val[AdjKey(t, k - 1)].x,
                               coord_file.val[AdjKey(t, k - 1)].y)
                    /\ ~Carries(out_tree.all_tasks[i].traj[k].code,
                                RawSteps(t)[k].coordinate.x, RawSteps(t)[k].coordinate.y)

\* C20: every export record carries the four score dimensions; a dimension the
\* annotation holds is exported with its stored value, one it lacks as 0.
C20_ScoresAllDims ==
    last.op = "export" =>
        \A t \in TaskIds : \A i \in RecordsOf(t) :
            /\ DOMAIN out_tree.all_tasks[i].scores = Dims
            /\ \A dim \in Dims :
                    out_tree.all_tasks[i].scores[dim]
                        = JGet(JGet(DictGet(annotations_file, t), "scores", <<>>), dim, 0)

\* Task 1, annotated with a difficulty score only, was exported with
\* difficulty 4 and the three other dimensions 0.
C20_Witness ==
    /\ last.op = "export"
    /\ JGet(DictGet(annotations_file, T1), "scores", <<>>) = [difficulty |-> 4]
    /\ \E i \in RecordsOf(T1) :
            out_tree.all_tasks[i].scores
                = [correctness |-> 0, difficulty |-> 4, knowledge_richness |-> 0, task_value |-> 0]

\* C25: with one request handled at a time, a key that is in the coordinate
\* overlay or in the annotation store stays in it: no set, annotate, task-view
\* or export step removes an entry.
C25_NothingDeleted ==
    [][/\ SeqRange(coord_file.keys) \subseteq SeqRange(coord_file'.keys)
       /\ SeqRange(annotations_file.keys) \subseteq SeqRange(annotations_file'.keys)
       /\ DOMAIN coord_file.val \subseteq DOMAIN coord_file'.val
       /\ DOMAIN annotations_file.val \subseteq DOMAIN annotations_file'.val]_vars

\* Task 1 was exported as passed, then a call without a mark was made for it,
\* and its record is still in the store, unset.
C25_Witness ==
    /\ last.op = "annotate"
    /\ last.req = [task_id |-> T1]
    /\ RecordsOf(T1) # {}
    /\ Has(annotations_file, T1)
    /\ MarkOf(T1) = None

\* the entries of dict before, but for key, are in dict after as they were, and
\* after has no key besides those of before and key
OthersKept(before, after, key) ==
    /\ SeqRange(after.keys) = SeqRange(before.keys) \cup {key}
    /\ \A k \in SeqRange(before.keys) \ {key} : after.val[k] = before.val[k]

\* C34: with one request handled at a time, a coordinate set for key k leaves
\* every other overlay entry and the whole annotation store as they were, and
\* an annotate call for task t leaves every other task's annotation and the
\* whole overlay as they were.
C34_FrameOfWrites ==
    [][/\ (nOps' = nOps + 1 /\ last'.op = "update_coordinate") =>
             /\ annotations_file' = annotations_file
             /\ OthersKept(coord_file, coord_file',
                           AdjKey(last'.req.task_id, last'.req.step_index))
       /\ (nOps' = nOps + 1 /\ last'.op = "annotate") =>
             /\ coord_file' = coord_file
             /\ OthersKept(annotations_file, annotations_file', last'.req.task_id)]_vars

\* A coordinate was set for a key while the overlay held another key and the
\* annotation store a record, and both are still there.
C34_Witness ==
    /\ last.op = "update_coordinate"
    /\ Cardinality(SeqRange(coord_file.keys)) >= 2
    /\ Has(annotations_file, T2)
    /\ annotations_file.val[T2].mark = "fail"

\* C35: an export run and a task view leave the annotation store and the
\* coordinate overlay exactly as they were, whatever the stores hold.
C35_ViewsReadOnly ==
    [][(nOps' = nOps + 1 /\ last'.op \in {"export", "task"}) =>
            /\ annotations_file' = annotations_file
            /\ coord_file' = coord_file]_vars

\* An export has written a dataset for a passed task while both stores held
\* entries.
C35_Witness ==
    /\ last.op = "export"
    /\ last.resp.count >= 1
    /\ out_tree.all_tasks_exists
    /\ Len(out_tree.all_tasks) >= 1
    /\ coord_file # EmptyDict
    /\ annotations_file # EmptyDict

HasSuffix(s, suf) == Len(suf) <= Len(s) /\ SubSeq(s, Len(s) - Len(suf) + 1, Len(s)) = suf

\* the texts of the numbers a synthesized drag may hold
NumTexts == {IntToStr(n) : n \in 0..9}

\* step (as normalized) has the code moveTo(x1, y1); dragTo(x2, y2) and an
\* adjustment, and code is moveTo(x', y'); dragTo(x2, y2), (x', y') being the
\* adjustment's current value
AdjustedDragOk(t, step, code) ==
    (/\ Has(coord_file, AdjKey(t, step.index))
     /\ HasPrefix(step.code, S_pyautogui \o S_moveTo \o <<"(">>)) =>
        \A c, d \in NumTexts :
            HasSuffix(step.code, <<";", " ">> \o S_pyautogui \o S_dragTo \o ArgsText(c, d)) =>
                code = MoveDragCode(IntToStr(coord_file.val[AdjKey(t, step.index)].x),
                                    IntToStr(coord_file.val[AdjKey(t, step.index)].y), c, d)

\* C27: an adjustment with current (x', y') applied to a drag step whose code is
\* moveTo(x1, y1); dragTo(x2, y2), in the task view and in the export, gives
\* moveTo(x', y'); dragTo(x2, y2).
C27_DragTargetKept ==
    /\ (last.op = "task" /\ last.resp.found) =>
            \A k \in 1..Len(last.resp.steps) :
                AdjustedDragOk(last.task_id, RawSteps(last.task_id)[k], last.resp.steps[k].code)
    /\ last.op = "export" =>
            \A i \in 1..Len(out_tree.all_tasks) : \A t \in TaskIds :
                i \in RecordsOf(t) =>
                    \A k \in 1..Len(out_tree.all_tasks[i].traj) :
                        AdjustedDragOk(t, RawSteps(t)[k], out_tree.all_tasks[i].traj[k].code)

\* The export wrote moveTo(7, 8); dragTo(3, 4) for the adjusted drag of task 1,
\* synthesized as moveTo(1, 2); dragTo(3, 4).
C27_Witness ==
    /\ last.op = "export"
    /\ RecordsOf(T1) # {}
    /\ Len(RawSteps(T1)) = 2
    /\ RawSteps(T1)[2].code = MoveDragCode(<<"1">>, <<"2">>, <<"3">>, <<"4">>)
    /\ \A i \in RecordsOf(T1) :
            out_tree.all_tasks[i].traj[2].code
                = MoveDragCode(<<"7">>, <<"8">>, <<"3">>, <<"4">>)

\* C26: for every step the normalizer produces, the frame request the page
\* issues for the step's video_time is answered with a frame, of an index in
\* [0, total_frames - 1], whenever the video has a readable frame, a negative
\* or whole video_time included.
C26_FrameServed ==
    (/\ last.op = "frame"
     /\ TheDir.video.exists
     /\ FrameRead(TheDir.video, FrameNum(TheDir.video, loaded.steps[last.k].video_time))) =>
        /\ last.resp.status = 200
        /\ last.resp.frame_num \in 0..(TheDir.video.total_frames - 1)

-----------------------------------------------------------------------------
(* The synthesizer on its own: build_pyautogui_code on one call drawn from the *)
(* inputs below.                                                               *)

Text31 == [i \in 1..31 |-> IF i = 31 THEN "z" ELSE "a"]
Text30 == SubSeq(Text31, 1, 30)

\* descriptions of click events: one word, several words, upper case, none
ClickDescriptions ==
    {D_double, D_right, D_triple, D_plain, <<>>,
     <<"R", "I", "G", "H", "T", " ", "t", "h", "e", "n", " ", "d", "o", "u", "b", "l", "e">>,
     <<"t", "r", "i", "p", "l", "e", " ", "r", "i", "g", "h", "t">>,
     <<"T", "r", "i", "p", "l", "e", "-", "D", "o", "u", "b", "l", "e">>}

\* descriptions of scroll events: the markers with their counts, in both
\* orders, one alone, one without a count
ScrollDescriptions ==
    {M_down \o <<"3">> \o <<" ">> \o M_up \o <<"1">>,
     M_up \o <<"1", "2">> \o <<" ">> \o M_down \o <<"5">>,
     M_down \o <<"3">>,
     M_up \o <<"4">>,
     M_down \o <<" ">> \o M_up \o <<"2">>,
     <<"S", "c", "r", "o", "l", "l">>}

\* descriptions of type events: the marker with a text of 1, 30 and 31
\* characters, with a text that goes on after a line break, with no text,
\* with text before the marker, and no marker
TypeDescriptions ==
    {M_type \o <<"h", "i">>,
     M_type \o Text30,
     M_type \o Text31,
     M_type \o <<"a", "b", "LF", "c", "d">>,
     <<"K", "e", "y", "s", " ">> \o M_type \o <<"o", "k">>,
     M_type,
     <<"T", "y", "p", "e", ":", " ", "h", "i">>,
     M_press \o <<"'", "c", "t", "r", "l", "'">>}

SynthDescriptions == ClickDescriptions \cup ScrollDescriptions \cup TypeDescriptions \cup {D_drag}
SynthActions == {A_click, A_drag, A_scroll, A_type, A_press, A_move}
SynthEvents == {<<>>} \cup {c : c \in CoordFields}

InitSynth ==
    /\ ServerInit
    /\ data_dir = <<>>
    /\ IdleRest

\* build_pyautogui_code(action, event, description) is called
Synthesize(action, event, description) ==
    /\ last.op = "none"
    /\ last' = [op |-> "synth", action |-> action, event |-> event,
                description |-> description,
                code |-> build_pyautogui_code(action, event, description)]
    /\ UNCHANGED <<annotations_file, coord_file, out_tree, data_dir, csv_file, nOps, setHist,
                   handlers, nWrites, annotations, currentTaskId, markSeq, loaded,
                   coordAdjustments, taskData, currentStepIndex, progressBar>>

NextSynth ==
    \E action \in SynthActions, event \in SynthEvents, description \in SynthDescriptions :
        Synthesize(action, event, description)

SpecSynth == InitSynth /\ [][NextSynth]_vars

Synthesized == last.op = "synth"
\* the first position of s at which lit stands, 0 when there is none
FirstAt(s, lit) ==
    IF \E i \in 1..Len(s) : HasAt(s, i, lit)
    THEN CHOOSE i \in 1..Len(s) : HasAt(s, i, lit) /\ \A j \in 1..(i - 1) : ~HasAt(s, j, lit)
    ELSE 0
\* the number written right after the first marker of s that has one, 0 when
\* no marker of s has a number
CountAfter(s, marker) ==
    LET at == {i \in 1..Len(s) : HasAt(s, i, marker)
                                    /\ i + Len(marker) <= Len(s)
                                    /\ s[i + Len(marker)] \in DigitChars}
    IN  IF at = {} THEN 0
        ELSE LET i == CHOOSE k \in at : \A j \in at : k <= j
                 from == i + Len(marker)
                 upto == CHOOSE e \in from..Len(s) :
                            /\ \A j \in from..e : s[j] \in DigitChars
                            /\ (e = Len(s) \/ s[e + 1] \notin DigitChars)
             IN  StrToNat(SubSeq(s, from, upto))
ScrollCode(n) == S_pyautogui \o A_scroll \o <<"(">> \o IntToStr(n) \o <<")">>

\* C21: for action scroll the code is scroll(U - D), U the count that follows
\* the up marker and D the count that follows the down marker in the
\* description, an absent marker counting as 0.
C21_ScrollNet ==
    (Synthesized /\ last.action = A_scroll) =>
        last.code = ScrollCode(CountAfter(last.description, M_up)
                                - CountAfter(last.description, M_down))

\* Down x3 and up x1 gave scroll(-2).
C21_Witness ==
    /\ Synthesized
    /\ last.action = A_scroll
    /\ last.description = M_down \o <<"3">> \o <<" ">> \o M_up \o <<"1">>
    /\ last.code = S_pyautogui \o A_scroll \o <<"(", "-", "2", ")">>

\* the event coordinate, a missing axis (or coordinate) taken as 0
EventX == JGet(JGet(last.event, "coordinate", <<>>), "x", 0)
EventY == JGet(JGet(last.event, "coordinate", <<>>), "y", 0)
\* the description says word, in upper or lower case
Says(word) == Contains(Lower(last.description), word)

\* C22: for action click the code is doubleClick(x, y) if the description
\* contains "double" (in either case), otherwise rightClick(x, y) if it
\* contains "right", otherwise click(x, y, clicks=3) if it contains "triple",
\* otherwise click(x, y), (x, y) being the event coordinate with missing axes
\* as 0.
C22_ClickVariants ==
    (Synthesized /\ last.action = A_click) =>
        /\ Says(S_double) => last.code = DoubleClickCode(EventX, EventY)
        /\ (~Says(S_double) /\ Says(S_right)) => last.code = RightClickCode(EventX, EventY)
        /\ (~Says(S_double) /\ ~Says(S_right) /\ Says(S_triple)) =>
                last.code = TripleClickCode(EventX, EventY)
        /\ (~Says(S_double) /\ ~Says(S_right) /\ ~Says(S_triple)) =>
                last.code = ClickCode(EventX, EventY)

\* A description with "triple" before "right", on an event whose coordinate has
\* only the x axis, gave rightClick(5, 0).
C22_Witness ==
    /\ Synthesized
    /\ last.action = A_click
    /\ FirstAt(last.description, S_triple) = 1
    /\ FirstAt(last.description, S_right) > 1
    /\ last.event = [coordinate |-> [x |-> 5]]
    /\ last.code = S_pyautogui \o S_right \o S_Click \o <<"(", "5", ",", " ", "0", ")">>

\* the text that follows the first keyboard-entry marker of s on its line,
\* <<>> when s has no marker followed by text
TextAfterMarker(s) ==
    LET at == {i \in 1..Len(s) : HasAt(s, i, M_type) /\ i + Len(M_type) <= Len(s)
                                    /\ s[i + Len(M_type)] # "LF"}
    IN  IF at = {} THEN <<>>
        ELSE LET i == CHOOSE k \in at : \A j \in at : k <= j
                 from == i + Len(M_type)
                 upto == CHOOSE e \in from..Len(s) :
                            /\ \A j \in from..e : s[j] # "LF"
                            /\ (e = Len(s) \/ s[e + 1] = "LF")
             IN  SubSeq(s, from, upto)
WriteCode(t) == S_pyautogui \o <<"w", "r", "i", "t", "e", "(", "'">> \o t \o <<"'", ")">>

\* C23: for action type, when the description holds the keyboard-entry marker
\* followed by a text t (on the marker's line), the code is write('t') in full
\* if t has at most 30 characters and write of the first 30 characters of t
\* followed by '...' if t is longer; without the marker (or without a text
\* after it) the code is write('...').
C23_TypeText ==
    (Synthesized /\ last.action = A_type) =>
        LET t == TextAfterMarker(last.description)
        IN  /\ (t # <<>> /\ Len(t) <= 30) => last.code = WriteCode(t)
            /\ Len(t) > 30 =>
                    last.code = WriteCode([i \in 1..33 |-> IF i <= 30 THEN t[i] ELSE "."])
            /\ t = <<>> => last.code = WriteCode(<<".", ".", ".">>)

\* A text of 30 characters was written in full.
C23_Witness ==
    /\ Synthesized
    /\ last.action = A_type
    /\ TextAfterMarker(last.description) = Text30
    /\ last.code = WriteCode(Text30)

-----------------------------------------------------------------------------
(* The coordinate substitution on its own: a synthesized click or drag code,   *)
(* then two substitutions in a row by the page, the task view or the export.   *)

SubstPoints == {<<150, 250>>, <<7, 8>>, <<0, 0>>, <<-5, 3>>}
SubstEvents == {<<>>, [coordinate |-> [x |-> 5]], [coordinate |-> [x |-> 100, y |-> 200]]}
SubstDescriptions == ClickDescriptions \cup {D_drag, D_move}
Substitutors == {"page", "task", "export"}

\* the substitution as the page, the task view and the export each spell it
Substituted(by, action, code, p) ==
    CASE by = "page" -> PageCode(action, code, p[1], p[2])
      [] by = "task" -> TaskViewCode(code, p[1], p[2])
      [] by = "export" -> ExportCode(code, p[1], p[2])

InitSubst ==
    /\ ServerInit
    /\ data_dir = <<>>
    /\ IdleRest

\* a synthesized code has (x1, y1) and then (x2, y2) substituted
Substitute(by, action, code, first, second) ==
    /\ last.op = "none"
    /\ last' = [op |-> "subst", by |-> by, action |-> action, code |-> code,
                first |-> first, second |-> second,
                once |-> Substituted(by, action, code, first),
                again |-> Substituted(by, action, Substituted(by, action, code, first), first),
                twice |-> Substituted(by, action, Substituted(by, action, code, first), second),
                direct |-> Substituted(by, action, code, second)]
    /\ UNCHANGED <<annotations_file, coord_file, out_tree, data_dir, csv_file, nOps, setHist,
                   handlers, nWrites, annotations, currentTaskId, markSeq, loaded,
                   coordAdjustments, taskData, currentStepIndex, progressBar>>

NextSubst ==
    \E by \in Substitutors, action \in {A_click, A_drag}, event \in SubstEvents,
       description \in SubstDescriptions, first \in SubstPoints, second \in SubstPoints :
        Substitute(by, action, build_pyautogui_code(action, event, description), first, second)

SpecSubst == InitSubst /\ [][NextSubst]_vars

\* C30: the coordinate substitution on a click or drag code is idempotent and
\* the last substitution wins: (x1, y1) and then (x2, y2) gives what (x2, y2)
\* gives on the synthesized code, and the same coordinate twice gives what it
\* gives once.
C30_SubstitutionIdempotent ==
    last.op = "subst" =>
        /\ last.twice = last.direct
        /\ last.again = last.once

\* The page substituted (150, 250) and then (7, 8) in moveTo(1, 2); dragTo(3, 4)
\* and the result is moveTo(7, 8); dragTo(3, 4).
C30_Witness ==
    /\ last.op = "subst"
    /\ last.by = "page"
    /\ last.code = MoveDragCode(<<"1">>, <<"2">>, <<"3">>, <<"4">>)
    /\ last.first = <<150, 250>>
    /\ last.second = <<7, 8>>
    /\ last.once = MoveDragCode(<<"1", "5", "0">>, <<"2", "5", "0">>, <<"3">>, <<"4">>)
    /\ last.twice = MoveDragCode(<<"7">>, <<"8">>, <<"3">>, <<"4">>)

-----------------------------------------------------------------------------
(* api_init on its own: a registry drawn from the ids below, then the task     *)
(* order of line 1421.                                                         *)

\* x.isdigit() for the characters used here
IsDigitText(x) == Len(x) > 0 /\ \A i \in 1..Len(x) : x[i] \in DigitChars

\* ord(c) for the characters of the ids
CodePoint(c) ==
    CASE c = "-" -> 45 [] c = "0" -> 48 [] c = "1" -> 49 [] c = "2" -> 50
      [] c = "a" -> 97 [] c = "b" -> 98

\* a < b for two str
RECURSIVE StrLess(_, _)
StrLess(a, b) ==
    IF Len(b) = 0 THEN FALSE
    ELSE IF Len(a) = 0 THEN TRUE
    ELSE IF a[1] # b[1] THEN CodePoint(a[1]) < CodePoint(b[1])
    ELSE StrLess(Tail(a), Tail(b))

\* sorted(ids) for str keys (the ids of a registry are distinct)
RECURSIVE SortedByStr(_)
SortedByStr(ids) ==
    IF Len(ids) = 0 THEN <<>>
    ELSE LET m == CHOOSE i \in 1..Len(ids) :
                    \A j \in 1..Len(ids) : i = j \/ StrLess(ids[i], ids[j])
         IN  <<ids[m]>> \o SortedByStr(SubSeq(ids, 1, m - 1) \o SubSeq(ids, m + 1, Len(ids)))

\* the sort keys of line 1421 are int for some ids and str for others: the
\* comparison of an int with a str raises TypeError
MixedKeys(ids) ==
    /\ \E i \in 1..Len(ids) : IsDigitText(ids[i])
    /\ \E i \in 1..Len(ids) : ~IsDigitText(ids[i])

\* api_init, lines 1416-1435: the status and the task_order of the response
api_init(tasks) ==
    IF MixedKeys(tasks.keys) THEN [status |-> 500]
    ELSE IF \A i \in 1..Len(tasks.keys) : IsDigitText(tasks.keys[i])
    THEN [status |-> 200, task_order |-> task_order(tasks)]
    ELSE [status |-> 200, task_order |-> SortedByStr(tasks.keys)]

InitIds == {<<"1">>, <<"2">>, <<"1", "0">>, <<"0", "1">>, <<"a">>, <<"b", "1">>, <<"-", "1">>}
MaxTasks == 3

\* load_tasks, lines 24-39: the registries of at most MaxTasks rows with
\* distinct ids, in the order of the rows
InitRegistries ==
    {[keys |-> q, val |-> [t \in SeqRange(q) |-> [task_id |-> t, instruction |-> I_text]]] :
        q \in {r \in UNION {[1..n -> InitIds] : n \in 0..MaxTasks} :
                  \A i, j \in 1..Len(r) : i # j => r[i] # r[j]}}

InitApi ==
    /\ annotations_file = EmptyDict
    /\ coord_file = EmptyDict
    /\ out_tree = EmptyTree
    /\ csv_file \in InitRegistries
    /\ last = NoRequest
    /\ nOps = 0
    /\ setHist = <<>>
    /\ data_dir = <<>>
    /\ IdleRest

\* GET /api/init
ApiInit ==
    /\ last.op = "none"
    /\ last' = [op |-> "api_init", resp |-> api_init(csv_file)]
    /\ UNCHANGED <<annotations_file, coord_file, out_tree, data_dir, csv_file, nOps, setHist,
                   handlers, nWrites, annotations, currentTaskId, markSeq, loaded,
                   coordAdjustments, taskData, currentStepIndex, progressBar>>

NextApi == ApiInit

SpecApi == InitApi /\ [][NextApi]_vars

\* C31: api_init answers for every registry, and its task_order lists every id
\* of the registry exactly once, the numeric-looking ids in the order of their
\* numeric values; a registry that mixes numeric-looking and other ids included.
C31_TaskOrderTotal ==
    last.op = "api_init" =>
        /\ last.resp.status = 200
        /\ Len(last.resp.task_order) = Len(csv_file.keys)
        /\ SeqRange(last.resp.task_order) = SeqRange(csv_file.keys)
        /\ \A i, j \in 1..Len(last.resp.task_order) :
              (/\ i < j
               /\ IsDigitText(last.resp.task_order[i])
               /\ IsDigitText(last.resp.task_order[j])) =>
                  StrToNat(last.resp.task_order[i]) <= StrToNat(last.resp.task_order[j])

-----------------------------------------------------------------------------
(* The keyboard of the review page: the keydown listener of lines 1393-1400    *)
(* on the page with a task shown.                                              *)

\* e.target.tagName: the page itself, the reason box, an X/Y input of the panel
TagNames == {"BODY", "TEXTAREA", "INPUT"}
\* e.key
Keys == {"ArrowLeft", "ArrowRight", "1", "2", "3", "0"}

\* the keydown listener, lines 1393-1400; a call that returns at once (prevStep
\* on the first step, nextStep on the last) leaves the page as it is
KeyDown(tagName, key) ==
    /\ tagName # "TEXTAREA"
    /\ \/ key = "ArrowLeft" /\ PrevStep
       \/ key = "ArrowRight" /\ NextStep
       \/ key = "1" /\ SetMark("pass")
       \/ key = "2" /\ SetMark("fail")
       \/ key = "3" /\ SetMark(None)

NextKeys ==
    \/ PanelInit
    \/ \E taskId \in TaskIds : PanelSelectTask(taskId)
    \/ \E tagName \in TagNames, key \in Keys : KeyDown(tagName, key)

SpecKeys == InitPanel /\ [][NextKeys]_vars

\* the fine-tune panel with its X/Y inputs is part of the page (line 1033)
PanelOffered ==
    /\ TaskShown
    /\ currentStepIndex < Len(taskData[currentTaskId].steps)
    /\ taskData[currentTaskId].steps[currentStepIndex + 1].has_coordinate

\* C36: a key pressed while the reviewer edits the X/Y inputs of the fine-tune
\* panel (the event's target is an input), the digits 1, 2 and 3 included,
\* leaves the mark of the current task as it was and saves no annotation.
C36_InputKeysInert ==
    [][\A key \in Keys :
         (PanelOffered /\ KeyDown("INPUT", key)) =>
            /\ JGet(DictGet(annotations', currentTaskId), "mark", None)
                  = JGet(DictGet(annotations, currentTaskId), "mark", None)
            /\ annotations_file' = annotations_file]_vars

-----------------------------------------------------------------------------
(* Step navigation of the review page: selectTask, the Prev, Next, First and   *)
(* Last buttons and the arrow keys, every handler run to completion.           *)

\* The data directory the navigation is exercised on: a task of two steps and
\* a task whose event log has no line.
DataDirN ==
    (T1 :> Dir(<<Ev(A_click, D_double, 100, 200), Ev(A_drag, D_drag, 1, 2)>>, NoLog, GoodVideo))
        @@ (T2 :> Dir(<<>>, NoLog, GoodVideo))

InitNav ==
    /\ ServerInit
    /\ data_dir = DataDirN
    /\ IdleRest

\* renderContent got as far as the step-nav buttons of the task shown
\* (lines 915-1009): the step it reads at line 920 exists
NavRendered ==
    /\ TaskShown
    /\ currentStepIndex \in 0..(Len(taskData[currentTaskId].steps) - 1)

\* the First button, line 1008
FirstStep ==
    /\ NavRendered
    /\ currentStepIndex' = 0
    /\ UNCHANGED <<annotations_file, coord_file, out_tree, data_dir, csv_file, last, nOps,
                   setHist, handlers, nWrites, annotations, currentTaskId, markSeq, loaded,
                   coordAdjustments, taskData, progressBar>>

\* the Last button, line 1009: totalSteps is that of the render
LastStep ==
    /\ NavRendered
    /\ currentStepIndex' = Len(taskData[currentTaskId].steps) - 1
    /\ UNCHANGED <<annotations_file, coord_file, out_tree, data_dir, csv_file, last, nOps,
                   setHist, handlers, nWrites, annotations, currentTaskId, markSeq, loaded,
                   coordAdjustments, taskData, progressBar>>

NextNav ==
    \/ PanelInit
    \/ \E taskId \in TaskIds : PanelSelectTask(taskId)
    \/ PrevStep
    \/ NextStep
    \/ FirstStep
    \/ LastStep
    \/ \E tagName \in TagNames, key \in Keys : KeyDown(tagName, key)

SpecNav == InitNav /\ [][NextNav]_vars

\* C37: for the task shown, once its data has loaded, the step index is within
\* the steps of the task, 0 <= currentStepIndex <= steps.length - 1, after any
\* sequence of selectTask, Prev, Next, First, Last and arrow keys.
C37_StepIndexInRange ==
    TaskShown => currentStepIndex \in 0..(Len(taskData[currentTaskId].steps) - 1)

-----------------------------------------------------------------------------
(* The progress bar of the review page: what renderProgressBar left in the     *)
(* counts and in the finish button, under init, selectTask and setMark, every  *)
(* handler run to completion.  Task 2 of the registry has no data directory.   *)

\* ann.mark of a task on the page, undefined read as unset
PageMark(anns, tid) == JGet(DictGet(anns, tid), "mark", None)

\* renderProgressBar, lines 861-881
Rendered(anns, taskOrder) ==
    LET passed == Cardinality({i \in 1..Len(taskOrder) : PageMark(anns, taskOrder[i]) = "pass"})
        failed == Cardinality({i \in 1..Len(taskOrder) : PageMark(anns, taskOrder[i]) = "fail"})
        pending == Cardinality({i \in 1..Len(taskOrder) :
                                   PageMark(anns, taskOrder[i]) \notin {"pass", "fail"}})
    IN  [passed |-> passed, failed |-> failed, pending |-> pending,
         finish_disabled |-> pending > 0]

\* renderContent, lines 915-920, runs through: the page holds steps for the
\* task (the body of a 404 has none) and the step at the index exists
ContentRenders(td, taskId, stepIndex) ==
    /\ taskId \in DOMAIN td
    /\ td[taskId].found
    /\ stepIndex \in 0..(Len(td[taskId].steps) - 1)

InitProgress ==
    /\ ServerInit
    /\ data_dir = DataDirC
    /\ IdleRest

\* init(), lines 823-836: renderProgressBar, then selectTask(taskOrder[0])
ProgressInit ==
    /\ Len(task_order(csv_file)) > 0
    /\ annotations' = annotations_file
    /\ coordAdjustments' = coord_file
    /\ currentTaskId' = task_order(csv_file)[1]
    /\ currentStepIndex' = 0
    /\ taskData' = Fetched(<<>>, data_dir, coord_file, task_order(csv_file)[1])
    /\ progressBar' = Rendered(annotations_file, task_order(csv_file))
    /\ last' = [op |-> "init"]
    /\ UNCHANGED <<annotations_file, coord_file, out_tree, data_dir, csv_file, nOps, setHist,
                   handlers, nWrites, markSeq, loaded>>

\* selectTask(taskId), lines 883-912: renderProgressBar is reached when the
\* loop over data.steps and renderContent have not thrown
ProgressSelectTask(taskId) ==
    /\ currentTaskId # None
    /\ currentTaskId' = taskId
    /\ currentStepIndex' = 0
    /\ taskData' = Fetched(taskData, data_dir, coord_file, taskId)
    /\ progressBar' = IF ContentRenders(taskData', taskId, 0)
                      THEN Rendered(annotations, task_order(csv_file))
                      ELSE progressBar
    /\ UNCHANGED <<annotations_file, coord_file, out_tree, data_dir, csv_file, last, nOps,
                   setHist, handlers, nWrites, annotations, markSeq, loaded,
                   coordAdjustments>>

\* setMark(mark), lines 1073-1084, with saveAnnotation and api_annotate:
\* renderProgressBar comes after renderContent
ProgressSetMark(mark) ==
    /\ currentTaskId # None
    /\ annotations' = MarkSet(annotations, currentTaskId, mark)
    /\ annotations_file' = UpdatedAnnotations(annotations_file, SaveBody(annotations', currentTaskId))
    /\ progressBar' = IF ContentRenders(taskData, currentTaskId, currentStepIndex)
                      THEN Rendered(annotations', task_order(csv_file))
                      ELSE progressBar
    /\ UNCHANGED <<coord_file, out_tree, data_dir, csv_file, last, nOps, setHist, handlers,
                   nWrites, currentTaskId, markSeq, loaded, coordAdjustments, taskData,
                   currentStepIndex>>

NextProgress ==
    \/ ProgressInit
    \/ \E taskId \in TaskIds : ProgressSelectTask(taskId)
    \/ \E mark \in Marks : ProgressSetMark(mark)

SpecProgress == InitProgress /\ [][NextProgress]_vars

\* C38: after any sequence of mark changes and task selections on the loaded
\* page, the finish button is enabled exactly when no task of the task order is
\* pending (every task is marked pass or fail), and the displayed passed,
\* failed and pending counts sum to the number of tasks.
C38_FinishButton ==
    currentTaskId # None =>
        /\ ~progressBar.finish_disabled <=>
              \A i \in 1..Len(task_order(csv_file)) :
                  PageMark(annotations, task_order(csv_file)[i]) \in {"pass", "fail"}
        /\ progressBar.passed + progressBar.failed + progressBar.pending
              = Len(task_order(csv_file))

=============================================================================
